---- MODULE Spec2Model ----
(***************************************************************************)
(* Decision-and-simulation engine of the futures trading system:          *)
(*   core/risk.py        RiskManager      (position state machine, PnL)   *)
(*   core/cooldown.py    CooldownManager  (loss-streak state machine)     *)
(*   core/strategy.py    SharpeOptimizedStrategy (signal, position size)  *)
(*   core/backtester.py  Backtester       (ledger and backtest loop)      *)
(*                                                                         *)
(* Python floats are modelled as fixed-point integers:                     *)
(*   money      1/100 USDT            (Backtester.cash, margin, pnl)       *)
(*   quantity   1/1000 of money-unit per price-unit (position_quantity)    *)
(*   ratios     parts per million     (_calculate_ratio, thresholds)       *)
(*   scores     1/100                 (signal_score, trend_score)          *)
(*   fractions  1/100                 (position size, cooldown factor)     *)
(*   prices     whole USDT                                                 *)
(* Divisions round down (\div).                                            *)
(***************************************************************************)
EXTENDS Integers, Sequences, FiniteSets, TLC

VARIABLES
    config,   \* the merged strategy configuration (immutable after construction)
    rm,       \* RiskManager instance fields
    cd,       \* CooldownManager instance fields
    sf,       \* SignalFilter instance fields (switches and thresholds)
    ts,       \* TradingSystem (trading.py): running flag, trading_loop threads, caller
    bt,       \* Backtester instance fields (cash, trade_log, total_assets, counters)
    pc,       \* where the driver is: "idle", "loop" (inside run_backtest), "cooldown" (unit driver)
    i,        \* run_backtest: number of bars already processed (enumerate index)
    runs,     \* number of run_backtest calls started on this Backtester
    result,   \* result_data returned by the last finished run_backtest
    last,     \* trace of the last bar processed (what each step of the bar did)
    features, \* replay driver: the rows fed to the first run, in order
    first,    \* replay driver: result_data of the first run
    now       \* cooldown driver: wall clock, hours (datetime.now())

vars == <<config, rm, cd, sf, ts, bt, pc, i, runs, result, last, features, first, now>>

----------------------------------------------------------------------------
(* Fixed-point scales *)

Ppm      == 1000 * 1000   \* ratio unit: 1 = 1e-6
QtyScale == 10 * 100      \* quantity unit
Pct      == 10 * 10       \* fraction / score unit: 1 = 0.01
Mille    == 10 * Pct      \* unit of position_unrealized_pnl_percent: 1 = 0.001

\* float('-inf') / float('inf') of high_point / low_point
NegInf == -1
PosInf == 1000000
\* None for an Optional[datetime]; timestamps of bars are 1, 2, 3, ...
NoTime == 0

Abs(x) == IF x < 0 THEN -x ELSE x
Max2(a, b) == IF a >= b THEN a ELSE b
Min2(a, b) == IF a <= b THEN a ELSE b

\* Optional arguments: <<>> is None, <<v>> is the value v.
None == <<>>
Some(v) == <<v>>
IsNone(o) == Len(o) = 0
Val(o) == o[1]

\* F applied to the value of v ("x = v; F(x)"): v is evaluated once
Bind(v, F(_)) == CHOOSE y \in { F(x) : x \in {v} } : TRUE

----------------------------------------------------------------------------
(* Configuration: OPTIMIZED_STRATEGY_CONFIG of config.py, in model units. *)

OPTIMIZED_STRATEGY_CONFIG == [
    leverage                      |-> 5,
    trading_fee                   |-> 1000,        \* 0.001 in ppm
    short_window                  |-> 200,         \* key absent: config.get('short_window', 200)
    long_threshold                |-> 1,           \* 0.01
    short_threshold               |-> -1,          \* -0.01
    signal_weight                 |-> 60,
    trend_weight                  |-> 40,
    full_position_threshold_min   |-> -50,
    full_position_threshold_max   |-> 50,
    full_position_size            |-> 90,
    avg_adjusted_position         |-> 50,
    max_adjusted_position         |-> 80,
    initial_risk_multiplier       |-> 100,         \* 1.0
    enable_fixed_stop_loss        |-> TRUE,
    fixed_stop_loss               |-> -100000,     \* -0.10 in ppm
    enable_signal_score_stop_loss |-> TRUE,
    signal_score_threshold        |-> 30,          \* 0.3
    linewma_take_profit_enabled   |-> FALSE,
    time_based_take_profit        |-> FALSE,
    time_based_periods            |-> 96,
    enable_callback               |-> TRUE,
    callback_ratio                |-> 50000,       \* 0.05 in ppm
    enable_cooldown_treatment     |-> TRUE,
    consecutive_loss_threshold    |-> 2,
    mode                          |-> "backtest",
    bt_level_1                    |-> 80,          \* backtest_mode.position_reduction_levels
    bt_level_2                    |-> 60,
    bt_level_3                    |-> 40,
    consecutive_wins              |-> 1,           \* backtest_mode.recovery_conditions
    max_cooldown_treatment_duration |-> 72,        \* realtime_mode, hours
    rt_level_2_losses             |-> 4,           \* realtime_mode.cooldown_treatment_levels
    rt_level_3_losses             |-> 6,
    rt_level_1                    |-> 80,          \* realtime_mode.position_reduction_levels
    rt_level_2                    |-> 60,
    rt_level_3                    |-> 40 ]

----------------------------------------------------------------------------
(* RiskManager (core/risk.py).  An operator takes the instance r (a record  *)
(* of its fields) and returns the instance after the call, or the value.   *)

\* RiskManager.__init__
RiskManager(c) == [
    position                        |-> 0,
    entry_price                     |-> 0,
    position_quantity               |-> 0,
    current_price                   |-> 0,
    leverage                        |-> c.leverage,
    high_point                      |-> NegInf,
    low_point                       |-> PosInf,
    entry_time                      |-> NoTime,
    holding_periods                 |-> 0,
    position_unrealized_pnl         |-> 0,
    position_unrealized_pnl_percent |-> 0,
    position_value                  |-> 0,
    margin_value                    |-> 0,
    risk_multiplier                 |-> c.initial_risk_multiplier,
    entry_signal_score              |-> 0 ]

\* RiskManager.reset_state
reset_state(r, c) == [r EXCEPT
    !.position = 0, !.entry_price = 0, !.position_quantity = 0, !.current_price = 0,
    !.high_point = NegInf, !.low_point = PosInf, !.entry_time = NoTime,
    !.holding_periods = 0,
    !.position_unrealized_pnl = 0, !.position_unrealized_pnl_percent = 0,
    !.position_value = 0, !.margin_value = 0,
    !.risk_multiplier = c.initial_risk_multiplier ]

\* position_quantity * price, in money units
Notional(r, price) == (r.position_quantity * price) \div QtyScale

\* (current - entry) for a long, (entry - current) for a short
PriceChange(r, price) ==
    IF r.position = 1 THEN price - r.entry_price ELSE r.entry_price - price

\* variant of _calculate_ratio that leaves the leverage out of the gross ratio
calculate_ratio_Unleveraged(r, c, current_price, leverage) ==
    IF r.position = 0 \/ r.entry_price = 0 THEN 0
    ELSE LET gross_ratio == (PriceChange(r, current_price) * Ppm) \div r.entry_price
             fee_ratio   == IF r.margin_value > 0
                            THEN (Notional(r, current_price) * c.trading_fee) \div r.margin_value
                            ELSE 0
         IN  gross_ratio - fee_ratio

\* RiskManager._calculate_ratio: net leveraged profit ratio, ppm
calculate_ratio(r, c, current_price, leverage) ==
    IF r.position = 0 \/ r.entry_price = 0 THEN 0
    ELSE LET gross_ratio == (PriceChange(r, current_price) * leverage * Ppm) \div r.entry_price
             fee_ratio   == IF r.margin_value > 0
                            THEN (Notional(r, current_price) * c.trading_fee) \div r.margin_value
                            ELSE 0
         IN  gross_ratio - fee_ratio

\* variant of calculate_unrealized_pnl whose early return is taken for Flat only
calculate_unrealized_pnl_FlatGuard(r, c) ==
    IF r.position = 0
    THEN [r EXCEPT !.position_unrealized_pnl = 0, !.position_unrealized_pnl_percent = 0]
    ELSE LET current_fee == (Notional(r, r.current_price) * c.trading_fee) \div Ppm
             gross_pnl   == (PriceChange(r, r.current_price) * r.leverage * r.margin_value)
                                \div Max2(1, r.entry_price)
             net_pnl     == gross_pnl - current_fee
         IN  [r EXCEPT !.position_unrealized_pnl = net_pnl,
                       !.position_unrealized_pnl_percent =
                           IF r.margin_value > 0 THEN (net_pnl * Mille) \div r.margin_value ELSE 0]

\* RiskManager.calculate_unrealized_pnl: the instance with both pnl fields set
calculate_unrealized_pnl(r, c) ==
    IF r.position = 0 \/ r.entry_price = 0 \/ r.position_quantity = 0
    THEN [r EXCEPT !.position_unrealized_pnl = 0, !.position_unrealized_pnl_percent = 0]
    ELSE LET current_fee == (Notional(r, r.current_price) * c.trading_fee) \div Ppm
             gross_pnl   == (PriceChange(r, r.current_price) * r.leverage * r.margin_value)
                                \div r.entry_price
             net_pnl     == gross_pnl - current_fee
         IN  [r EXCEPT !.position_unrealized_pnl = net_pnl,
                       !.position_unrealized_pnl_percent =
                           IF r.margin_value > 0 THEN (net_pnl * Mille) \div r.margin_value ELSE 0]

\* variant of _update_margin_info that always derives the margin from the position
\* value and the leverage
update_margin_info_Derived(r) ==
    IF r.position # 0 /\ r.position_quantity > 0 /\ r.entry_price > 0
    THEN LET pv == (r.position_quantity * r.entry_price) \div QtyScale
         IN  [r EXCEPT !.position_value = pv,
                       !.margin_value = IF r.leverage > 0 THEN pv \div r.leverage ELSE 0]
    ELSE [r EXCEPT !.position_value = 0, !.margin_value = 0]

\* RiskManager._update_margin_info
update_margin_info(r) ==
    IF r.position # 0 /\ r.position_quantity > 0 /\ r.entry_price > 0
    THEN LET pv == (r.position_quantity * r.entry_price) \div QtyScale
         IN  [r EXCEPT !.position_value = pv,
                       !.margin_value = IF r.margin_value = 0
                                        THEN (IF r.leverage > 0 THEN pv \div r.leverage ELSE 0)
                                        ELSE r.margin_value]
    ELSE [r EXCEPT !.position_value = 0, !.margin_value = 0]

\* RiskManager._get_margin_value: the margin derived from quantity, entry price and
\* leverage
get_margin_value_derived(r) ==
    LET position_value == IF r.position_quantity > 0
                          THEN (r.position_quantity * r.entry_price) \div QtyScale
                          ELSE 0
    IN  IF r.leverage > 0 THEN position_value \div r.leverage ELSE 0

\* RiskManager.set_position_quantity
set_position_quantity(r, quantity) ==
    update_margin_info([r EXCEPT !.position_quantity = quantity])

\* variant of _update_high_low_points that follows the last price instead of the extreme
update_high_low_points_Last(r, current_price) ==
    IF r.position = 1 THEN [r EXCEPT !.high_point = current_price]
    ELSE IF r.position = -1 THEN [r EXCEPT !.low_point = current_price]
    ELSE r

\* RiskManager._update_high_low_points
update_high_low_points(r, current_price) ==
    IF r.position = 1
    THEN (IF current_price > r.high_point THEN [r EXCEPT !.high_point = current_price] ELSE r)
    ELSE IF r.position = -1
    THEN (IF current_price < r.low_point THEN [r EXCEPT !.low_point = current_price] ELSE r)
    ELSE r

\* RiskManager.update_position_info; leverage and margin_value are Optional
update_position_info(r, c, position, entry_price, current_price, current_time, entry_signal_score, leverage, margin_value) ==
    Bind([r EXCEPT !.position = position, !.entry_price = entry_price,
                   !.current_price = current_price,
                   !.leverage = IF IsNone(leverage) THEN r.leverage ELSE Val(leverage),
                   !.margin_value = IF IsNone(margin_value) THEN r.margin_value
                                    ELSE Val(margin_value)],
    LAMBDA r1 :
    Bind(IF position = 0
         THEN [r1 EXCEPT !.position_quantity = 0,
                         !.position_unrealized_pnl = 0,
                         !.position_unrealized_pnl_percent = 0]
         ELSE calculate_unrealized_pnl(r1, c),
    LAMBDA r2 :
    Bind(IF position # 0 /\ current_time # NoTime
         THEN [r2 EXCEPT !.entry_time = current_time, !.holding_periods = 0,
                         !.entry_signal_score = entry_signal_score]
         ELSE IF position = 0
         THEN [r2 EXCEPT !.entry_time = NoTime, !.holding_periods = 0,
                         !.entry_signal_score = 0]
         ELSE r2,
    LAMBDA r3 :
    Bind(IF r.position = position THEN r3     \* not is_new_position
         ELSE IF position = 1
         THEN [r3 EXCEPT !.high_point = current_price, !.low_point = PosInf]
         ELSE IF position = -1
         THEN [r3 EXCEPT !.high_point = NegInf, !.low_point = current_price]
         ELSE [r3 EXCEPT !.high_point = NegInf, !.low_point = PosInf],
    LAMBDA r4 :
        IF IsNone(margin_value) THEN update_margin_info(r4)
        ELSE IF r4.position # 0 /\ r4.position_quantity > 0 /\ r4.entry_price > 0
                /\ r4.leverage > 0
        THEN [r4 EXCEPT !.position_value =
                  ((r4.position_quantity * r4.entry_price) \div QtyScale) * r4.leverage]
        ELSE [r4 EXCEPT !.position_value = 0]))))

\* RiskManager.update_holding_periods
update_holding_periods(r) ==
    IF r.position # 0 THEN [r EXCEPT !.holding_periods = r.holding_periods + 1] ELSE r

\* variant of should_open_position that allows an open only when Flat
should_open_position_FlatOnly(r, signal) == signal # 0 /\ r.position = 0

\* variant of should_open_position that rejects every open
should_open_position_Never(r, signal) == FALSE

\* RiskManager.should_open_position
should_open_position(r, signal) ==
    IF signal = 0 THEN FALSE
    ELSE IF r.position = signal THEN FALSE
    ELSE TRUE

----------------------------------------------------------------------------
(* A feature row, as far as the engine reads it:                           *)
(*   close        row['close']                                             *)
(*   signal_score row['signal_score'], the precomputed base score          *)
(*   trend_score  row['trend_score']                                       *)
(*   lineWMA      row['lineWMA']                                           *)
(*   numeric      FALSE when the indicator fields hold a non-numeric value *)
(*                (a comparison with a number then raises TypeError)       *)
(*   veto         verdict of SignalFilter.filter_signal on a non-neutral   *)
(*                direction: TRUE = replaced by 0                          *)

\* RiskManager._check_signal_score_stop_loss -> [raised, hit, reason]
check_signal_score_stop_loss(r, c, row, loss_ratio) ==
    LET fixed_stop_ratio == Abs(c.fixed_stop_loss)
    IN  IF loss_ratio <= -((fixed_stop_ratio * 7) \div 10)
        THEN IF ~row.numeric
             THEN [raised |-> TRUE, hit |-> FALSE, reason |-> "none"]
             ELSE IF r.position = 1 /\ row.signal_score < -c.signal_score_threshold
             THEN [raised |-> FALSE, hit |-> TRUE, reason |-> "signal_score_stop_loss"]
             ELSE IF r.position = -1 /\ row.signal_score > c.signal_score_threshold
             THEN [raised |-> FALSE, hit |-> TRUE, reason |-> "signal_score_stop_loss"]
             ELSE [raised |-> FALSE, hit |-> FALSE, reason |-> "none"]
        ELSE [raised |-> FALSE, hit |-> FALSE, reason |-> "none"]

\* RiskManager.should_stop_loss -> [raised, hit, reason]
should_stop_loss(r, c, current_price, row) ==
    IF r.position = 0 THEN [raised |-> FALSE, hit |-> FALSE, reason |-> "none"]
    ELSE Bind(calculate_ratio(r, c, current_price, r.leverage), LAMBDA loss_ratio :
             IF loss_ratio >= 0 THEN [raised |-> FALSE, hit |-> FALSE, reason |-> "none"]
             ELSE IF c.enable_fixed_stop_loss /\ loss_ratio <= -Abs(c.fixed_stop_loss)
             THEN [raised |-> FALSE, hit |-> TRUE, reason |-> "fixed_stop_loss"]
             ELSE IF c.enable_signal_score_stop_loss
             THEN check_signal_score_stop_loss(r, c, row, loss_ratio)
             ELSE [raised |-> FALSE, hit |-> FALSE, reason |-> "none"])

\* callback (retracement) rule of should_take_profit, evaluated when profit_ratio > 0
CallbackHit(r, c, current_price) ==
    /\ c.enable_callback
    /\ \/ /\ r.position = 1
          /\ current_price < r.high_point /\ r.high_point > 0
          /\ ((r.high_point - current_price) * Ppm) \div r.high_point >= c.callback_ratio
       \/ /\ r.position = -1
          /\ r.low_point < PosInf
          /\ current_price > r.low_point
          /\ ((current_price - r.low_point) * Ppm) \div r.low_point >= c.callback_ratio

\* LineWMA reversal rule of should_take_profit (numeric row)
LineWmaHit(r, current_price, row) ==
    /\ row.lineWMA > 0
    /\ \/ r.position = 1 /\ current_price < row.lineWMA /\ row.signal_score < 0
       \/ r.position = -1 /\ current_price > row.lineWMA /\ row.signal_score > 0

\* variant of should_take_profit that tries the LineWMA rule before the callback rule
should_take_profit_LineFirst(r, c, current_price, row) ==
    IF r.position = 0 THEN [raised |-> FALSE, hit |-> FALSE, reason |-> "none"]
    ELSE Bind(calculate_ratio(r, c, current_price, r.leverage), LAMBDA profit_ratio :
             IF c.linewma_take_profit_enabled /\ ~row.numeric
             THEN [raised |-> TRUE, hit |-> FALSE, reason |-> "none"]
             ELSE IF c.linewma_take_profit_enabled /\ LineWmaHit(r, current_price, row)
             THEN [raised |-> FALSE, hit |-> TRUE, reason |-> "linewma_take_profit"]
             ELSE IF profit_ratio > 0 /\ CallbackHit(r, c, current_price)
             THEN [raised |-> FALSE, hit |-> TRUE, reason |-> "callback_take_profit"]
             ELSE IF c.time_based_take_profit /\ r.holding_periods >= c.time_based_periods
                     /\ profit_ratio > 0
             THEN [raised |-> FALSE, hit |-> TRUE, reason |-> "time_take_profit"]
             ELSE [raised |-> FALSE, hit |-> FALSE, reason |-> "none"])

\* RiskManager.should_take_profit -> [raised, hit, reason]
should_take_profit(r, c, current_price, row) ==
    IF r.position = 0 THEN [raised |-> FALSE, hit |-> FALSE, reason |-> "none"]
    ELSE Bind(calculate_ratio(r, c, current_price, r.leverage), LAMBDA profit_ratio :
             IF profit_ratio > 0 /\ CallbackHit(r, c, current_price)
             THEN [raised |-> FALSE, hit |-> TRUE, reason |-> "callback_take_profit"]
             ELSE IF c.linewma_take_profit_enabled /\ ~row.numeric
             THEN [raised |-> TRUE, hit |-> FALSE, reason |-> "none"]
             ELSE IF c.linewma_take_profit_enabled /\ LineWmaHit(r, current_price, row)
             THEN [raised |-> FALSE, hit |-> TRUE, reason |-> "linewma_take_profit"]
             ELSE IF c.time_based_take_profit /\ r.holding_periods >= c.time_based_periods
                     /\ profit_ratio > 0
             THEN [raised |-> FALSE, hit |-> TRUE, reason |-> "time_take_profit"]
             ELSE [raised |-> FALSE, hit |-> FALSE, reason |-> "none"])

\* variant of check_risk_management that runs the take-profit rules at ratio 0 too
check_risk_management_AtZero(r, c, current_price, row) ==
    IF r.position = 0
    THEN [raised |-> FALSE, action |-> "hold", reason |-> "none", rm |-> r]
    ELSE Bind(calculate_ratio(r, c, current_price, r.leverage), LAMBDA profit_ratio :
         Bind(update_high_low_points(r, current_price), LAMBDA r1 :
         Bind(IF profit_ratio >= 0
              THEN should_take_profit(r1, c, current_price, row)
              ELSE should_stop_loss(r1, c, current_price, row),
         LAMBDA res :
              [raised |-> res.raised,
               action |-> IF res.raised \/ ~res.hit THEN "hold"
                          ELSE IF profit_ratio >= 0 THEN "take_profit" ELSE "stop_loss",
               reason |-> res.reason,
               rm     |-> r1])))

\* RiskManager.check_risk_management -> [raised, action, reason, rm]
\* rm is the instance after the call (the water marks are updated before the checks,
\* and stay updated when a check raises).
check_risk_management(r, c, current_price, row) ==
    IF r.position = 0
    THEN [raised |-> FALSE, action |-> "hold", reason |-> "none", rm |-> r]
    ELSE Bind(calculate_ratio(r, c, current_price, r.leverage), LAMBDA profit_ratio :
         Bind(update_high_low_points(r, current_price), LAMBDA r1 :
         Bind(IF profit_ratio > 0
              THEN should_take_profit(r1, c, current_price, row)
              ELSE should_stop_loss(r1, c, current_price, row),
         LAMBDA res :
              [raised |-> res.raised,
               action |-> IF res.raised \/ ~res.hit THEN "hold"
                          ELSE IF profit_ratio > 0 THEN "take_profit" ELSE "stop_loss",
               reason |-> res.reason,
               rm     |-> r1])))

----------------------------------------------------------------------------
(* CooldownManager (core/cooldown.py) *)

\* CooldownManager.__init__ / reset_state
CooldownManager == [
    consecutive_losses            |-> 0,
    consecutive_wins              |-> 0,
    cooldown_treatment_active     |-> FALSE,
    cooldown_treatment_level      |-> 0,
    cooldown_treatment_start_time |-> NoTime,
    position_size_reduction       |-> 100,
    trade_history                 |-> <<>> ]

\* the loop of _calculate_consecutive_results, from trade k backward, with the
\* counters so far -> <<consecutive_losses, consecutive_wins>>
RECURSIVE ScanBack(_, _, _, _)
ScanBack(h, k, losses, wins) ==
    IF k = 0 THEN <<losses, wins>>
    ELSE IF h[k].pnl < 0
         THEN (IF wins > 0 THEN <<losses, wins>> ELSE ScanBack(h, k - 1, losses + 1, wins))
    ELSE IF h[k].pnl > 0
         THEN (IF losses > 0 THEN <<losses, wins>> ELSE ScanBack(h, k - 1, losses, wins + 1))
    ELSE <<losses, wins>>

\* variant of _calculate_consecutive_results that counts every loss and every win of
\* the history
calculate_consecutive_results_Total(m) ==
    [m EXCEPT
       !.consecutive_losses = Cardinality({k \in 1..Len(m.trade_history) :
                                             m.trade_history[k].pnl < 0}),
       !.consecutive_wins = Cardinality({k \in 1..Len(m.trade_history) :
                                             m.trade_history[k].pnl > 0})]

\* variant of _calculate_consecutive_results that steps over the trades with pnl = 0
\* instead of stopping at them
calculate_consecutive_results_SkipDraws(m) ==
    Bind(SelectSeq(m.trade_history, LAMBDA t : t.pnl # 0), LAMBDA h :
    Bind(ScanBack(h, Len(h), 0, 0), LAMBDA lw :
         [m EXCEPT !.consecutive_losses = lw[1], !.consecutive_wins = lw[2]]))

\* CooldownManager._calculate_consecutive_results
calculate_consecutive_results(m) ==
    Bind(ScanBack(m.trade_history, Len(m.trade_history), 0, 0), LAMBDA lw :
         [m EXCEPT !.consecutive_losses = lw[1], !.consecutive_wins = lw[2]])

\* variant of _get_cooldown_level that escalates one loss later
get_cooldown_level_Late(m, c) ==
    IF m.consecutive_losses >= c.consecutive_loss_threshold + 3 THEN 3
    ELSE IF m.consecutive_losses >= c.consecutive_loss_threshold + 2 THEN 2
    ELSE 1

\* CooldownManager._get_cooldown_level
get_cooldown_level(m, c) ==
    IF m.consecutive_losses >= c.consecutive_loss_threshold + 2 THEN 3
    ELSE IF m.consecutive_losses >= c.consecutive_loss_threshold + 1 THEN 2
    ELSE 1

\* CooldownManager._update_parameters (_update_backtest_parameters /
\* _update_realtime_parameters)
update_parameters(m, c) ==
    LET lvl == m.cooldown_treatment_level
        bk  == c.mode = "backtest"
    IN  [m EXCEPT !.position_size_reduction =
            IF lvl = 3 THEN (IF bk THEN c.bt_level_3 ELSE c.rt_level_3)
            ELSE IF lvl = 2 THEN (IF bk THEN c.bt_level_2 ELSE c.rt_level_2)
            ELSE IF lvl = 1 THEN (IF bk THEN c.bt_level_1 ELSE c.rt_level_1)
            ELSE 100]

\* CooldownManager._normalize_time: None becomes datetime.now()
normalize_time(t, clock) == IF t = NoTime THEN clock ELSE t

\* variant of _check_level_upgrade that takes the new level even when it is lower
check_level_upgrade_Always(m, c) ==
    update_parameters([m EXCEPT !.cooldown_treatment_level = get_cooldown_level(m, c)], c)

\* CooldownManager._check_level_upgrade
check_level_upgrade(m, c) ==
    LET new_level == get_cooldown_level(m, c)
    IN  IF new_level > m.cooldown_treatment_level
        THEN update_parameters([m EXCEPT !.cooldown_treatment_level = new_level], c)
        ELSE m

\* CooldownManager._activate_backtest_mode
activate_backtest_mode(m, c, trade_time, clock) ==
    update_parameters([m EXCEPT
        !.cooldown_treatment_level = get_cooldown_level(m, c),
        !.cooldown_treatment_active = TRUE,
        !.cooldown_treatment_start_time = normalize_time(trade_time, clock)], c)

\* CooldownManager._activate_realtime_mode
activate_realtime_mode(m, c, trade_time, clock) ==
    update_parameters([m EXCEPT
        !.cooldown_treatment_level =
            IF m.consecutive_losses >= c.rt_level_3_losses THEN 3
            ELSE IF m.consecutive_losses >= c.rt_level_2_losses THEN 2
            ELSE 1,
        !.cooldown_treatment_active = TRUE,
        !.cooldown_treatment_start_time = normalize_time(trade_time, clock)], c)

\* CooldownManager._check_activation
check_activation(m, c, trade_time, clock) ==
    IF m.consecutive_losses >= c.consecutive_loss_threshold
    THEN IF m.cooldown_treatment_active THEN check_level_upgrade(m, c)
         ELSE IF c.mode = "backtest" THEN activate_backtest_mode(m, c, trade_time, clock)
         ELSE activate_realtime_mode(m, c, trade_time, clock)
    ELSE m

\* variant of _check_backtest_recovery that recovers on the first win
check_backtest_recovery_FirstWin(m, c) == m.consecutive_wins >= 1

\* CooldownManager._check_backtest_recovery
check_backtest_recovery(m, c) == m.consecutive_wins >= c.consecutive_wins

\* CooldownManager._check_realtime_recovery
check_realtime_recovery(m, c, clock) ==
    IF m.cooldown_treatment_start_time = NoTime THEN FALSE
    ELSE clock - m.cooldown_treatment_start_time >= c.max_cooldown_treatment_duration

\* variant of _reset_cooldown_treatment that leaves the level as it is
reset_cooldown_treatment_KeepLevel(m) == [m EXCEPT
    !.cooldown_treatment_active = FALSE,
    !.cooldown_treatment_start_time = NoTime,
    !.position_size_reduction = 100]

\* CooldownManager._reset_cooldown_treatment
reset_cooldown_treatment(m) == [m EXCEPT
    !.cooldown_treatment_active = FALSE,
    !.cooldown_treatment_level = 0,
    !.cooldown_treatment_start_time = NoTime,
    !.position_size_reduction = 100]

\* CooldownManager._check_recovery
check_recovery(m, c, clock) ==
    IF ~m.cooldown_treatment_active THEN m
    ELSE IF (IF c.mode = "backtest" THEN check_backtest_recovery(m, c)
             ELSE check_realtime_recovery(m, c, clock))
    THEN reset_cooldown_treatment(m)
    ELSE m

\* CooldownManager.update_status; trade_result is Optional
update_status(m, c, trade_result, trade_time, clock) ==
    Bind(IF IsNone(trade_result) THEN m
         ELSE [m EXCEPT !.trade_history = Append(m.trade_history, Val(trade_result))],
    LAMBDA m1 :
    Bind(calculate_consecutive_results(m1), LAMBDA m2 :
    Bind(check_activation(m2, c, trade_time, clock), LAMBDA m3 :
         check_recovery(m3, c, clock))))

\* CooldownManager.apply_to_position_size
apply_to_position_size(m, position_size) ==
    IF m.cooldown_treatment_active
    THEN (position_size * m.position_size_reduction) \div Pct
    ELSE position_size

----------------------------------------------------------------------------
(* SharpeOptimizedStrategy (core/strategy.py) *)

\* max(200, self.config.get('short_window', 200)) of generate_signals / run_backtest
MinRequiredData_None(c) == 1

\* min_required_data of generate_signals and run_backtest
MinRequiredData(c) == Max2(200, c.short_window)

\* SharpeOptimizedStrategy._calculate_direction
calculate_direction(c, signal_score) ==
    IF signal_score > c.long_threshold THEN 1
    ELSE IF signal_score < c.short_threshold THEN -1
    ELSE 0

\* SharpeOptimizedStrategy._calculate_weighted_score (risk and drawdown weights are 0)
calculate_weighted_score(c, row) ==
    (row.signal_score * c.signal_weight + row.trend_score * c.trend_weight) \div Pct

\* SharpeOptimizedStrategy._filter_signal: the filter pipeline's verdict comes with the row
filter_signal(original_signal, row) ==
    IF original_signal = 0 THEN 0
    ELSE IF row.veto THEN 0 ELSE original_signal

\* variant of _calculate_position_size that leaves the cooldown factor out
calculate_position_size_NoCooldown(r, m, c, signal, signal_score) ==
    IF signal = 0 THEN 0
    ELSE Bind(IF signal = 1
              THEN (IF signal_score >= c.full_position_threshold_max
                    THEN c.full_position_size ELSE c.avg_adjusted_position)
              ELSE (IF signal_score <= c.full_position_threshold_min
                    THEN c.full_position_size ELSE c.avg_adjusted_position),
         LAMBDA position_size :
              Max2(0, Min2(c.max_adjusted_position,
                           (position_size * r.risk_multiplier) \div Pct)))

\* SharpeOptimizedStrategy._calculate_position_size -> size, in 1/100 of the cash
calculate_position_size(r, m, c, signal, signal_score) ==
    IF signal = 0 THEN 0
    ELSE Bind(IF signal = 1
              THEN (IF signal_score >= c.full_position_threshold_max
                    THEN c.full_position_size ELSE c.avg_adjusted_position)
              ELSE (IF signal_score <= c.full_position_threshold_min
                    THEN c.full_position_size ELSE c.avg_adjusted_position),
         LAMBDA position_size :
              Max2(0, Min2(c.max_adjusted_position,
                           apply_to_position_size(m, (position_size * r.risk_multiplier)
                                                          \div Pct))))

\* variant of NoSignal in which a failure leaves a long signal behind
NoSignal_Leaky(reason, raised) ==
    [signal |-> IF raised THEN 1 ELSE 0, signal_score |-> 0, size |-> 50,
     reason |-> reason, raised |-> raised]

\* the signal_info of a neutral early return ({'signal': 0, 'reason': ...})
NoSignal(reason, raised) ==
    [signal |-> 0, signal_score |-> 0, size |-> 0, reason |-> reason, raised |-> raised]

\* SharpeOptimizedStrategy.generate_signals on features.iloc[:n] whose last row is row
\* -> [info, rm]: the signal_info and the RiskManager after the call
\* (_calculate_signal calls update_holding_periods)
generate_signals(r, m, c, n, row) ==
    IF n < MinRequiredData(c)
    THEN [info |-> NoSignal("insufficient_data", FALSE), rm |-> r]
    ELSE IF ~row.numeric
    THEN [info |-> NoSignal("signal_exception", TRUE), rm |-> r]
    ELSE Bind(calculate_direction(c, row.signal_score), LAMBDA original_signal :
         Bind(calculate_weighted_score(c, row), LAMBDA signal_score :
         Bind(filter_signal(original_signal, row), LAMBDA signal :
              [info |-> [signal       |-> signal,
                         original_signal |-> original_signal,
                         signal_score |-> signal_score,
                         size         |-> calculate_position_size(r, m, c, signal, signal_score),
                         reason       |-> IF signal # 0 THEN "signal"
                                          ELSE IF original_signal = 0 THEN "neutral"
                                          ELSE "filtered",
                         raised       |-> FALSE],
               rm   |-> update_holding_periods(r)])))

\* variant of reset_position that leaves the CooldownManager as it is
reset_position_KeepCooldown(w, c) ==
    [w EXCEPT !.rm = reset_state(w.rm, c)]

\* SharpeOptimizedStrategy.reset_position -> the world with rm and cd reset
reset_position(w, c) ==
    [w EXCEPT !.rm = reset_state(w.rm, c), !.cd = CooldownManager]

----------------------------------------------------------------------------
(* Backtester (core/backtester.py).  w is the world [bt, rm, cd]: the       *)
(* Backtester, and its strategy's RiskManager and CooldownManager.         *)

\* Backtester.__init__
Backtester == [
    initial_cash      |-> 100000,     \* 1000.0
    cash              |-> 100000,
    total_trades      |-> 0,
    profitable_trades |-> 0,
    loss_trades       |-> 0,
    total_assets      |-> <<>>,
    asset_timestamps  |-> <<>>,
    trade_log         |-> <<>> ]

\* variant of the reset that leaves the trade counters as they are
ResetLedger_KeepCounters(b) == [b EXCEPT
    !.cash = b.initial_cash, !.trade_log = <<>>, !.total_assets = <<>>,
    !.asset_timestamps = <<>>]

\* the reset at the head of run_backtest and of _clear_backtest_data
ResetLedger(b) == [b EXCEPT
    !.cash = b.initial_cash, !.trade_log = <<>>, !.total_assets = <<>>,
    !.asset_timestamps = <<>>, !.total_trades = 0, !.profitable_trades = 0,
    !.loss_trades = 0]

\* Backtester.open_position (signal # 0 is checked by the caller's branch too)
open_position(w, c, signal, price, current_time, signal_info) ==
    IF signal = 0 THEN w
    ELSE Bind((w.bt.cash * signal_info.size) \div Pct, LAMBDA usdt_amount :
         Bind((usdt_amount * QtyScale) \div price, LAMBDA eth_amount :
         Bind(set_position_quantity(w.rm, eth_amount), LAMBDA r1 :
         Bind(update_position_info(r1, c, signal, price, price, current_time,
                                   signal_info.signal_score, None, Some(usdt_amount)),
         LAMBDA r2 :
         Bind([date |-> current_time,
               action |-> IF signal = 1 THEN "open_long" ELSE "open_short",
               price |-> price,
               position_value |-> r2.position_value,
               cash |-> w.bt.cash - usdt_amount,
               pnl |-> 0,
               reason |-> signal_info.reason,
               trade_type |-> "open",
               leverage |-> r2.leverage,
               signal_score |-> signal_info.signal_score,
               position_size |-> signal_info.size],
         LAMBDA rec :
              [w EXCEPT !.rm = r2,
                        !.bt.cash = w.bt.cash - usdt_amount,
                        !.bt.trade_log = Append(w.bt.trade_log, rec),
                        !.bt.total_trades = w.bt.total_trades + 1])))))

\* the most recent open record of the log, for the score fields of a close record
RECURSIVE LastOpen(_, _)
LastOpen(log, k) ==
    IF k = 0 THEN [signal_score |-> 0, position_size |-> 0]
    ELSE IF log[k].trade_type = "open"
    THEN [signal_score |-> log[k].signal_score, position_size |-> log[k].position_size]
    ELSE LastOpen(log, k - 1)

\* Backtester.close_position
close_position(w, c, price, reason, current_time, clock) ==
    IF w.rm.position = 0 THEN w
    ELSE Bind([w.rm EXCEPT !.current_price = price], LAMBDA r0 :
         Bind(r0.position_unrealized_pnl, LAMBDA realized_pnl :
         Bind(Max2(0, w.bt.cash + r0.margin_value + realized_pnl), LAMBDA cash :
         Bind(IF c.enable_cooldown_treatment
              THEN update_status(w.cd, c,
                       Some([pnl |-> realized_pnl, timestamp |-> current_time,
                             reason |-> reason]),
                       current_time, clock)
              ELSE w.cd,
         LAMBDA m1 :
         Bind(LastOpen(w.bt.trade_log, Len(w.bt.trade_log)), LAMBDA open :
         Bind([date |-> current_time,
               action |-> IF r0.position = 1 THEN "close_long" ELSE "close_short",
               price |-> price,
               position_value |-> r0.position_value,
               cash |-> cash,
               pnl |-> realized_pnl,
               reason |-> reason,
               trade_type |-> "close",
               leverage |-> r0.leverage,
               signal_score |-> open.signal_score,
               position_size |-> open.position_size],
         LAMBDA rec :
         Bind(update_position_info(r0, c, 0, 0, price, current_time, 0, None, None),
         LAMBDA r1 :
         Bind(set_position_quantity(r1, 0), LAMBDA r2 :
              [bt |-> [w.bt EXCEPT
                         !.cash = cash,
                         !.profitable_trades = IF realized_pnl > 0 THEN @ + 1 ELSE @,
                         !.loss_trades = IF realized_pnl > 0 THEN @ ELSE @ + 1,
                         !.trade_log = Append(w.bt.trade_log, rec)],
               rm |-> r2,
               cd |-> m1]))))))))


\* run_backtest, loop body, "风险管理检查": the try block around
\* check_risk_management and the close it may ask for
\* -> [w, raised, action, reason, closed, ratio]
RiskStep(w, c, price, row, current_time, clock) ==
    IF w.rm.position = 0
    THEN [w |-> w, raised |-> FALSE, action |-> "none", reason |-> "none",
          closed |-> FALSE, ratio |-> 0]
    ELSE Bind(check_risk_management(w.rm, c, price, row), LAMBDA res :
         Bind([w EXCEPT !.rm = res.rm], LAMBDA w1 :
         Bind(~res.raised /\ res.action \in {"stop_loss", "take_profit"}, LAMBDA hit :
              [w      |-> IF hit
                          THEN close_position(w1, c, price, res.reason, current_time, clock)
                          ELSE w1,
               raised |-> res.raised,
               action |-> res.action,
               reason |-> res.reason,
               closed |-> hit,
               ratio  |-> calculate_ratio(w.rm, c, price, w.rm.leverage)])))

\* variant of MayOpen that lets a bar open again after its own exit
MayOpen_Reentry(signal, current_position, position_closed_this_time) ==
    signal # 0 /\ current_position = 0

\* variant of MayOpen without the Flat check
MayOpen_AnyPosition(signal, current_position, position_closed_this_time) ==
    signal # 0

\* run_backtest, loop body: the condition under which a signal leads to an open
\* (signal != 0, current_position == 0 and not position_closed_this_time)
MayOpen(signal, current_position, position_closed_this_time) ==
    signal # 0 /\ current_position = 0 /\ ~position_closed_this_time

\* run_backtest, loop body, "获取交易信号": the try block around generate_signals
\* and the open it may lead to -> [w, signal, score, size, raised, reason, opened, skipped]
\* skipped: the 'continue' taken when should_open_position answers False
SignalStep(w, c, n, price, row, current_time, position_closed_this_time) ==
    Bind(generate_signals(w.rm, w.cd, c, n, row), LAMBDA gs :
    Bind([w EXCEPT !.rm = gs.rm], LAMBDA w1 :
    Bind(MayOpen(gs.info.signal, w1.rm.position, position_closed_this_time), LAMBDA try :
    Bind(should_open_position(w1.rm, gs.info.signal), LAMBDA allow :
    Bind(IF try /\ allow
         THEN open_position(w1, c, gs.info.signal, price, current_time, gs.info)
         ELSE w1,
    LAMBDA w2 :
        [w       |-> IF try /\ allow
                     THEN [w2 EXCEPT !.rm = update_position_info(w2.rm, c, w2.rm.position,
                                        w2.rm.entry_price, price, current_time, 0, None, None)]
                     ELSE w1,
         signal  |-> gs.info.signal,
         score   |-> gs.info.signal_score,
         size    |-> gs.info.size,
         raised  |-> gs.info.raised,
         reason  |-> gs.info.reason,
         opened  |-> try /\ allow,
         skipped |-> try /\ ~allow])))))

\* variant of EquityStep that leaves the margin out of the value of an open position
EquityStep_NoMargin(w, current_time) ==
    LET total_asset == IF w.rm.position # 0
                       THEN w.bt.cash + w.rm.position_unrealized_pnl
                       ELSE w.bt.cash
    IN  [w EXCEPT !.bt.total_assets = Append(w.bt.total_assets, total_asset),
                  !.bt.asset_timestamps = Append(w.bt.asset_timestamps, current_time)]

\* run_backtest, loop body, "记录资金曲线"
EquityStep(w, current_time) ==
    LET total_asset == IF w.rm.position # 0
                       THEN w.bt.cash + w.rm.margin_value + w.rm.position_unrealized_pnl
                       ELSE w.bt.cash
    IN  [w EXCEPT !.bt.total_assets = Append(w.bt.total_assets, total_asset),
                  !.bt.asset_timestamps = Append(w.bt.asset_timestamps, current_time)]

\* variant of MarkStep that leaves the position as the last bar marked it
MarkStep_Skip(r, c, current_price, current_time) == r

\* run_backtest, loop body, "更新策略持仓信息": the position is marked to market at
\* the bar's close
MarkStep(r, c, current_price, current_time) ==
    update_position_info(r, c, r.position, r.entry_price, current_price, current_time,
                         0, None, None)

\* one iteration of the main loop of run_backtest, on row number idx (from 0)
\* -> [w, trace]
ProcessBar(w, c, idx, row, clock) ==
    Bind(MarkStep(w.rm, c, row.close, idx + 1), LAMBDA r1 :
    Bind(RiskStep([w EXCEPT !.rm = r1], c, row.close, row, idx + 1, clock), LAMBDA rs :
    Bind(SignalStep(rs.w, c, idx + 1, row.close, row, idx + 1, rs.closed), LAMBDA ss :
        [w     |-> IF ss.skipped THEN ss.w ELSE EquityStep(ss.w, idx + 1),
         trace |-> [close       |-> row.close,
                    pos_before  |-> w.rm.position,
                    ratio       |-> rs.ratio,
                    risk_raised |-> rs.raised,
                    risk_action |-> rs.action,
                    risk_reason |-> rs.reason,
                    closed      |-> rs.closed,
                    pos_mid     |-> rs.w.rm.position,
                    cash_mid    |-> rs.w.bt.cash,
                    log_mid     |-> Len(rs.w.bt.trade_log),
                    signal      |-> ss.signal,
                    score       |-> ss.score,
                    size        |-> ss.size,
                    sig_raised  |-> ss.raised,
                    sig_reason  |-> ss.reason,
                    opened      |-> ss.opened]])))

\* the trace before any bar
NoTrace == [close |-> 0, pos_before |-> 0, ratio |-> 0, risk_raised |-> FALSE,
            risk_action |-> "none", risk_reason |-> "none", closed |-> FALSE,
            pos_mid |-> 0, cash_mid |-> 0, log_mid |-> 0,
            signal |-> 0, score |-> 0, size |-> 0,
            sig_raised |-> FALSE, sig_reason |-> "none", opened |-> FALSE]

\* run_backtest, head: reset of the ledger and of the strategy
StartRun(w, c) == reset_position([w EXCEPT !.bt = ResetLedger(w.bt)], c)

\* variant of ForceClose that leaves the position open
ForceClose_Skip(w, c, n, last_price, clock) == w

\* run_backtest, "回测结束处理": force close at the last price
ForceClose(w, c, n, last_price, clock) ==
    IF w.rm.position # 0
    THEN close_position(w, c, last_price, "end_of_backtest", n, clock)
    ELSE w

\* result_data of run_backtest
ResultData(w) ==
    [final_cash       |-> w.bt.cash,
     return_ratio     |-> ((w.bt.cash - w.bt.initial_cash) * Mille) \div w.bt.initial_cash,
     total_trades     |-> w.bt.total_trades,
     total_assets     |-> w.bt.total_assets,
     asset_timestamps |-> w.bt.asset_timestamps,
     trade_log        |-> w.bt.trade_log]

\* Backtester._clear_backtest_data
clear_backtest_data(w, c) ==
    Bind(reset_position([w EXCEPT !.bt = ResetLedger(w.bt)], c), LAMBDA w1 :
         [w1 EXCEPT !.rm = reset_state(w1.rm, c), !.cd = CooldownManager])

----------------------------------------------------------------------------
(* SignalFilter (core/siganal_filter.py).                                   *)
(* A field of a row is a record: [kind |-> "num", v |-> n] is a number,      *)
(* Missing an absent key (None for a score argument), NaN a float NaN and   *)
(* Text a non-numeric value (a string).  Arithmetic or an ordering          *)
(* comparison with Text raises TypeError; a comparison with NaN is False.   *)
(* Units: prices whole USDT, deviations and thresholds in 1/100 percent,    *)
(* scores 1/100, volatility ppm.                                            *)

Num(n)  == [kind |-> "num", v |-> n]
Missing == [kind |-> "missing", v |-> 0]
NaN     == [kind |-> "nan", v |-> 0]
Text    == [kind |-> "text", v |-> 0]

\* row.get(key, default)
Get(x, default) == IF x.kind = "missing" THEN Num(default) ELSE x

\* 'signal_score_filters' of OPTIMIZED_STRATEGY_CONFIG
SIGNAL_SCORE_FILTERS == [
    enable_price_deviation_filter   |-> TRUE,
    price_deviation_threshold       |-> 300,      \* 3.0 %
    enable_rsi_filter               |-> TRUE,
    rsi_overbought_threshold        |-> 85,
    rsi_oversold_threshold          |-> 25,
    enable_volatility_filter        |-> TRUE,
    min_volatility                  |-> 3000,     \* 0.003
    max_volatility                  |-> 600000,   \* 0.60
    volatility_period               |-> 50,
    enable_price_ma_entanglement    |-> TRUE,
    entanglement_distance_threshold |-> 3,        \* 0.03 %
    enable_signal_score_filter      |-> TRUE,
    filter_long_base_score          |-> 35,
    filter_long_trend_score         |-> 30,
    filter_short_base_score         |-> -25,
    filter_short_trend_score        |-> -30 ]

\* SignalFilter.__init__: the instance fields are the switches and thresholds
SignalFilter(filter_config) == filter_config

\* verdicts of a stage
StagePass(stage, reason) == [stage |-> stage, verdict |-> "pass", reason |-> reason]
StageVeto(stage, reason) == [stage |-> stage, verdict |-> "veto", reason |-> reason]
StageRaise(stage)        == [stage |-> stage, verdict |-> "raise", reason |-> "TypeError"]

\* SignalFilter._get_market_state_adjustment
get_market_state_adjustment(row) ==
    LET market_regime == Get(row.market_regime, 0)
    IN  IF market_regime.kind = "num" /\ market_regime.v = 2 THEN -50
        ELSE IF market_regime.kind = "num" /\ market_regime.v = 1 THEN 500
        ELSE 0

\* SignalFilter._get_volatility_adjustment -> [raised, adj]
get_volatility_adjustment(row) ==
    LET atr   == Get(row.atr, 0)
        close == Get(row.close, 1)
    IN  IF atr.kind = "text" THEN [raised |-> TRUE, adj |-> 0]
        ELSE IF atr.kind = "nan" \/ atr.v <= 0 THEN [raised |-> FALSE, adj |-> 0]
        ELSE IF close.kind = "text" THEN [raised |-> TRUE, adj |-> 0]
        ELSE IF close.kind = "nan" \/ close.v <= 0 THEN [raised |-> FALSE, adj |-> 0]
        ELSE LET atr_ratio == (atr.v * 10000) \div close.v
             IN  [raised |-> FALSE,
                  adj    |-> IF atr_ratio > 500 THEN 150
                             ELSE IF atr_ratio > 300 THEN 50
                             ELSE IF atr_ratio < 100 THEN -50
                             ELSE 0]

\* SignalFilter._get_dynamic_price_deviation_threshold -> [raised, threshold]
get_dynamic_price_deviation_threshold(f, row) ==
    LET volatility_adjustment == get_volatility_adjustment(row)
    IN  [raised    |-> volatility_adjustment.raised,
         threshold |-> Max2(100, Min2(800, f.price_deviation_threshold
                                             + get_market_state_adjustment(row)
                                             + volatility_adjustment.adj))]

\* SignalFilter._check_price_deviation
check_price_deviation(f, row, signal) ==
    IF row.lineWMA.kind \in {"missing", "nan"}
    THEN StagePass("price_deviation", "price_deviation_pass")
    ELSE LET dyn      == get_dynamic_price_deviation_threshold(f, row)
             price    == IF signal = 1 THEN Get(row.low, row.close.v)
                         ELSE Get(row.high, row.close.v)
             line_wma == row.lineWMA
         IN  IF dyn.raised THEN StageRaise("price_deviation")
             ELSE IF line_wma.kind = "num" /\ line_wma.v = 0
             THEN StagePass("price_deviation", "price_deviation_pass")
             ELSE IF price.kind = "text" \/ line_wma.kind = "text"
             THEN StageRaise("price_deviation")
             ELSE IF price.kind = "nan"
             THEN StagePass("price_deviation", "price_deviation_pass")
             ELSE LET price_deviation == ((price.v - line_wma.v) * 10000) \div line_wma.v
                  IN  IF signal = 1 /\ price_deviation >= dyn.threshold
                      THEN StageVeto("price_deviation", "price_deviation_long")
                      ELSE IF signal = -1 /\ price_deviation <= -dyn.threshold
                      THEN StageVeto("price_deviation", "price_deviation_short")
                      ELSE StagePass("price_deviation", "price_deviation_pass")

\* SignalFilter._check_rsi_conditions
check_rsi_conditions(f, row, signal) ==
    LET rsi == Get(row.rsi, 50)
    IN  IF rsi.kind = "nan" THEN StagePass("rsi", "rsi_missing")
        ELSE IF rsi.kind = "text" THEN StageRaise("rsi")
        ELSE IF signal = 1 /\ rsi.v >= f.rsi_overbought_threshold
        THEN StageVeto("rsi", "rsi_overbought")
        ELSE IF signal = -1 /\ rsi.v <= f.rsi_oversold_threshold
        THEN StageVeto("rsi", "rsi_oversold")
        ELSE StagePass("rsi", "rsi_pass")

\* SignalFilter._check_volatility_filter.  window_len is len(current_data) and
\* window_std the standard deviation of the returns of the last volatility_period
\* closes (Text: the closes are not numeric and the computation raises, which the
\* stage catches)
check_volatility_filter(f, row) ==
    IF row.window_len.v < f.volatility_period
    THEN StagePass("volatility", "volatility_short_history")
    ELSE IF row.window_std.kind = "text"
    THEN StagePass("volatility", "volatility_exception")
    ELSE IF row.window_std.kind # "num"
    THEN StagePass("volatility", "volatility_pass")
    ELSE IF row.window_std.v < f.min_volatility
    THEN StageVeto("volatility", "volatility_low")
    ELSE IF row.window_std.v > f.max_volatility
    THEN StageVeto("volatility", "volatility_high")
    ELSE StagePass("volatility", "volatility_pass")

\* SignalFilter._check_signal_score_filter
check_signal_score_filter(f, signal, trend_score, base_score) ==
    IF trend_score.kind \in {"missing", "nan"}
    THEN StagePass("signal_score", "trend_score_missing")
    ELSE IF base_score.kind \in {"missing", "nan"}
    THEN StagePass("signal_score", "base_score_missing")
    ELSE IF signal = 1
    THEN IF trend_score.kind = "text" THEN StagePass("signal_score", "score_exception")
         ELSE IF trend_score.v < f.filter_long_trend_score
         THEN StageVeto("signal_score", "long_trend_weak")
         ELSE IF base_score.kind = "text" THEN StagePass("signal_score", "score_exception")
         ELSE IF base_score.v < f.filter_long_base_score
         THEN StageVeto("signal_score", "long_base_weak")
         ELSE StagePass("signal_score", "score_pass")
    ELSE IF signal = -1
    THEN IF trend_score.kind = "text" THEN StagePass("signal_score", "score_exception")
         ELSE IF trend_score.v > f.filter_short_trend_score
         THEN StageVeto("signal_score", "short_trend_weak")
         ELSE IF base_score.kind = "text" THEN StagePass("signal_score", "score_exception")
         ELSE IF base_score.v > f.filter_short_base_score
         THEN StageVeto("signal_score", "short_base_weak")
         ELSE StagePass("signal_score", "score_pass")
    ELSE StagePass("signal_score", "neutral")

\* variant of _check_price_ma_entanglement that lets a perfect alignment pass
\* whatever its distance from lineWMA
check_price_ma_entanglement_NoDistance(f, row) ==
    LET current_price == Get(row.close, 0)
        line_wma      == Get(row.lineWMA, 0)
        open_ema      == Get(row.openEMA, 0)
        close_ema     == Get(row.closeEMA, 0)
        all           == {current_price, line_wma, open_ema, close_ema}
    IN  IF \E x \in all : x.kind = "nan"
        THEN StagePass("entanglement", "entanglement_invalid")
        ELSE IF \E x \in {line_wma, open_ema, close_ema} : x.kind = "num" /\ x.v = 0
        THEN StagePass("entanglement", "entanglement_invalid")
        ELSE IF \E x \in all : x.kind = "text"
        THEN StageRaise("entanglement")
        ELSE LET ema_max == Max2(open_ema.v, close_ema.v)
                 ema_min == Min2(open_ema.v, close_ema.v)
             IN  IF \/ current_price.v > ema_max /\ ema_max > line_wma.v
                    \/ current_price.v < ema_min /\ ema_min < line_wma.v
                 THEN StagePass("entanglement", "entanglement_pass")
                 ELSE StageVeto("entanglement", "entangled")

\* SignalFilter._check_price_ma_entanglement (veto = is_entangled)
check_price_ma_entanglement(f, row) ==
    LET current_price == Get(row.close, 0)
        line_wma      == Get(row.lineWMA, 0)
        open_ema      == Get(row.openEMA, 0)
        close_ema     == Get(row.closeEMA, 0)
        all           == {current_price, line_wma, open_ema, close_ema}
    IN  IF \E x \in all : x.kind = "nan"
        THEN StagePass("entanglement", "entanglement_invalid")
        ELSE IF \E x \in {line_wma, open_ema, close_ema} : x.kind = "num" /\ x.v = 0
        THEN StagePass("entanglement", "entanglement_invalid")
        ELSE IF \E x \in all : x.kind = "text"
        THEN StageRaise("entanglement")
        ELSE LET ema_max == Max2(open_ema.v, close_ema.v)
                 ema_min == Min2(open_ema.v, close_ema.v)
                 perfect_bullish == current_price.v > ema_max /\ ema_max > line_wma.v
                 perfect_bearish == current_price.v < ema_min /\ ema_min < line_wma.v
                 price_wma_distance ==
                     (Abs(current_price.v - line_wma.v) * 10000) \div line_wma.v
             IN  IF perfect_bullish \/ perfect_bearish
                 THEN IF price_wma_distance < f.entanglement_distance_threshold
                      THEN StageVeto("entanglement", "entangled")
                      ELSE StagePass("entanglement", "entanglement_pass")
                 ELSE StageVeto("entanglement", "entangled")

\* the stages of filter_signal in their order, each with its switch
StageOrder == << "price_deviation", "rsi", "volatility", "signal_score", "entanglement" >>

\* variant of the stage switches that runs every stage whatever its switch
StageEnabled_All(f, stage) == TRUE

StageEnabled(f, stage) ==
    IF stage = "price_deviation" THEN f.enable_price_deviation_filter
    ELSE IF stage = "rsi" THEN f.enable_rsi_filter
    ELSE IF stage = "volatility" THEN f.enable_volatility_filter
    ELSE IF stage = "signal_score" THEN f.enable_signal_score_filter
    ELSE f.enable_price_ma_entanglement

RunStage(f, stage, signal, row, trend_score, base_score) ==
    IF stage = "price_deviation" THEN check_price_deviation(f, row, signal)
    ELSE IF stage = "rsi" THEN check_rsi_conditions(f, row, signal)
    ELSE IF stage = "volatility" THEN check_volatility_filter(f, row)
    ELSE IF stage = "signal_score"
    THEN check_signal_score_filter(f, signal, trend_score, base_score)
    ELSE check_price_ma_entanglement(f, row)

\* the stages from number k on, after the stages in trail have passed
\* -> [signal, reason, raised, trail]
RECURSIVE RunStages(_, _, _, _, _, _, _)
RunStages(f, k, signal, row, trend_score, base_score, trail) ==
    IF k > Len(StageOrder)
    THEN [signal |-> signal, reason |-> "passed", raised |-> FALSE, trail |-> trail]
    ELSE IF ~StageEnabled(f, StageOrder[k])
    THEN RunStages(f, k + 1, signal, row, trend_score, base_score, trail)
    ELSE Bind(RunStage(f, StageOrder[k], signal, row, trend_score, base_score),
         LAMBDA s :
              IF s.verdict = "raise"
              THEN [signal |-> signal, reason |-> s.reason, raised |-> TRUE,
                    trail |-> Append(trail, s)]
              ELSE IF s.verdict = "veto"
              THEN [signal |-> 0, reason |-> s.reason, raised |-> FALSE,
                    trail |-> Append(trail, s)]
              ELSE RunStages(f, k + 1, signal, row, trend_score, base_score,
                             Append(trail, s)))

\* variant of filter_signal that lowers the RSI overbought threshold of the
\* instance at every call
SignalFilter_filter_signal_Adaptive(f, signal, row, trend_score, base_score) ==
    [out  |-> IF signal = 0
              THEN [signal |-> 0, reason |-> "original_neutral", raised |-> FALSE,
                    trail |-> <<>>]
              ELSE RunStages(f, 1, signal, row, trend_score, base_score, <<>>),
     self |-> [f EXCEPT !.rsi_overbought_threshold = @ - 40]]

\* variant of filter_signal that returns the direction handed back by the last
\* stage it ran (_check_volatility_filter hands back 1 for every pass)
SignalFilter_filter_signal_StageDirection(f, signal, row, trend_score, base_score) ==
    [out  |-> IF signal = 0
              THEN [signal |-> 0, reason |-> "original_neutral", raised |-> FALSE,
                    trail |-> <<>>]
              ELSE Bind(RunStages(f, 1, signal, row, trend_score, base_score, <<>>),
                   LAMBDA o :
                        IF ~o.raised /\ o.signal # 0 /\ Len(o.trail) > 0
                           /\ o.trail[Len(o.trail)].stage = "volatility"
                        THEN [o EXCEPT !.signal = 1] ELSE o),
     self |-> f]

\* SignalFilter.filter_signal -> [out, self]: the returned (signal, reason), whether
\* the call raised, the verdicts of the stages it ran, and the instance after the call
SignalFilter_filter_signal(f, signal, row, trend_score, base_score) ==
    [out  |-> IF signal = 0
              THEN [signal |-> 0, reason |-> "original_neutral", raised |-> FALSE,
                    trail |-> <<>>]
              ELSE RunStages(f, 1, signal, row, trend_score, base_score, <<>>),
     self |-> f]

----------------------------------------------------------------------------
(* TradingSystem (trading.py), web mode: start() and stop() are called by    *)
(* the web interface, trading_loop runs in a thread of its own.             *)
(*   running         self.running                                           *)
(*   threads         the trading_loop threads started so far, each at       *)
(*                   "test" (the while self.running test), "step" (inside   *)
(*                   the loop body: market data and the decision logic),    *)
(*                   "wait" (the sleep loop between two steps) or "done"    *)
(*   trading_thread  self.trading_thread: index in threads, 0 before start  *)
(*   caller          "idle", or "join" while stop() waits in join(15)       *)

\* TradingSystem.__init__
TradingSystem == [running |-> FALSE, threads |-> <<>>, trading_thread |-> 0,
                  caller |-> "idle"]

\* TradingSystem.start -> the instance after the call: refused while running,
\* else running is set and a new trading_loop thread is started
TradingSystem_start(s) ==
    IF s.running THEN s
    ELSE [s EXCEPT !.running = TRUE,
                   !.threads = Append(s.threads, "test"),
                   !.trading_thread = Len(s.threads) + 1]

\* TradingSystem.stop up to the join: nothing while not running, else running is
\* cleared and the caller waits for trading_thread if it is alive
TradingSystem_stop(s) ==
    IF ~s.running THEN s
    ELSE [s EXCEPT !.running = FALSE,
                   !.caller = IF s.trading_thread # 0 /\ s.threads[s.trading_thread] # "done"
                              THEN "join" ELSE "idle"]

\* trading_loop: the 'while self.running' test of thread t
trading_loop_test(s, t) ==
    [s EXCEPT !.threads[t] = IF s.running THEN "step" ELSE "done"]

----------------------------------------------------------------------------
(* Bounds and inputs *)

MaxLiveBars == 4     \* bars fed after the warm-up of MinRequiredData - 1 bars

Prices == {140, 190, 197, 200}

\* rows: neutral, strong long, weak long, strong short, vetoed, non-numeric
ScorePairs == { <<0, 0>>, <<60, 60>>, <<60, 0>>, <<-60, -60>> }

Rows ==
    { [close |-> p, signal_score |-> sp[1], trend_score |-> sp[2], lineWMA |-> 0,
       numeric |-> TRUE, veto |-> FALSE] : p \in Prices, sp \in ScorePairs }
    \cup
    { [close |-> p, signal_score |-> 60, trend_score |-> 60, lineWMA |-> 0,
       numeric |-> TRUE, veto |-> TRUE] : p \in Prices }
    \cup
    { [close |-> p, signal_score |-> 0, trend_score |-> 0, lineWMA |-> 0,
       numeric |-> FALSE, veto |-> FALSE] : p \in Prices }

----------------------------------------------------------------------------
(* Specification Spec: a Backtester with its strategy, driven through       *)
(* run_backtest over arbitrary series.                                      *)

World == [bt |-> bt, rm |-> rm, cd |-> cd]

\* strategy state restored by load_strategy_status from a status file of an earlier
\* session (the file is absent, or holds an open long and an active cooldown)
LoadedRiskManagers(c) ==
    { RiskManager(c),
      [RiskManager(c) EXCEPT !.position = 1, !.entry_price = 200,
                             !.position_quantity = 2500, !.current_price = 208,
                             !.high_point = 208, !.entry_time = 7, !.holding_periods = 3,
                             !.position_value = 2500, !.margin_value = 50000] }

LoadedCooldownManagers ==
    { CooldownManager,
      [CooldownManager EXCEPT !.consecutive_losses = 2, !.cooldown_treatment_active = TRUE,
                              !.cooldown_treatment_level = 1,
                              !.position_size_reduction = 80] }

Init ==
    /\ config = OPTIMIZED_STRATEGY_CONFIG
    /\ rm \in LoadedRiskManagers(config)
    /\ cd \in LoadedCooldownManagers
    /\ sf = SignalFilter(SIGNAL_SCORE_FILTERS)
    /\ ts = TradingSystem
    /\ bt = Backtester
    /\ pc = "idle"
    /\ i = 0
    /\ runs = 0
    /\ result = None
    /\ last = NoTrace
    /\ features = <<>>
    /\ first = None
    /\ now = 0

\* run_backtest is called: state is reset and the loop is entered
RunBacktest ==
    /\ pc = "idle"
    /\ LET w == StartRun(World, config)
       IN  /\ bt' = w.bt /\ rm' = w.rm /\ cd' = w.cd
    /\ pc' = "loop"
    /\ i' = 0
    /\ last' = NoTrace
    /\ result' = None
    /\ UNCHANGED <<config, ts, sf, runs, features, first, now>>

\* the loop body runs on the next row of the series
Bar ==
    /\ pc = "loop"
    /\ i < MinRequiredData(config) - 1 + MaxLiveBars
    /\ \E row \in Rows :
          LET b == ProcessBar(World, config, i, row, now)
          IN  /\ bt' = b.w.bt /\ rm' = b.w.rm /\ cd' = b.w.cd
              /\ last' = b.trace
    /\ i' = i + 1
    /\ UNCHANGED <<config, ts, sf, pc, runs, result, features, first, now>>

\* the series is exhausted: force close of a position that is still open
EndOfSeries ==
    /\ pc = "loop"
    /\ IF runs = 0 THEN TRUE
       ELSE IF runs = 1 THEN i >= MinRequiredData(config) - 1
       ELSE i = Len(features)
    /\ LET w == ForceClose(World, config, i, last.close, now)
       IN  /\ bt' = w.bt /\ rm' = w.rm /\ cd' = w.cd
    /\ pc' = "end"
    /\ UNCHANGED <<config, ts, sf, i, runs, result, last, features, first, now>>

\* result_data is built, _clear_backtest_data runs and run_backtest returns
Return ==
    /\ pc = "end"
    /\ result' = Some(ResultData(World))
    /\ first' = IF runs = 1 THEN result' ELSE first
    /\ LET w == clear_backtest_data(World, config)
       IN  /\ bt' = w.bt /\ rm' = w.rm /\ cd' = w.cd
    /\ pc' = "idle"
    /\ UNCHANGED <<config, ts, sf, i, runs, last, features, now>>

Next == RunBacktest \/ Bar \/ EndOfSeries \/ Return

Spec == Init /\ [][Next]_vars

----------------------------------------------------------------------------
(* Specification SpecReplay: run_backtest is called again and again on one  *)
(* Backtester with the same series.  The first call draws the series and    *)
(* records it in features and its result in first; later calls replay it.   *)

MaxReplayBars == 3    \* bars of the replayed series after the warm-up
MaxRuns       == 2    \* run_backtest calls on one Backtester

\* rows of the warm-up, and rows of the bars after it
WarmRows == { r \in Rows : r.close = 200 /\ r.signal_score = 60 /\ r.trend_score = 60
                           /\ ~r.veto }

ReplayRows == { r \in Rows : /\ r.numeric /\ ~r.veto
                             /\ r.signal_score = r.trend_score
                             /\ \/ r.close = 200 /\ r.signal_score # 0
                                \/ r.close \in {140, 190} /\ r.signal_score = 0 }

\* run_backtest is called
ReplayRun ==
    /\ pc = "idle"
    /\ runs < MaxRuns
    /\ LET w == StartRun(World, config)
       IN  /\ bt' = w.bt /\ rm' = w.rm /\ cd' = w.cd
    /\ pc' = "loop"
    /\ i' = 0
    /\ runs' = runs + 1
    /\ last' = NoTrace
    /\ result' = None
    /\ UNCHANGED <<config, ts, sf, features, first, now>>

\* first call: the loop body runs on a row that the series gets
RecordBar ==
    /\ pc = "loop"
    /\ runs = 1
    /\ i < MinRequiredData(config) - 1 + MaxReplayBars
    /\ \E row \in (IF i < MinRequiredData(config) - 1 THEN WarmRows ELSE ReplayRows) :
          LET b == ProcessBar(World, config, i, row, now)
          IN  /\ bt' = b.w.bt /\ rm' = b.w.rm /\ cd' = b.w.cd
              /\ last' = b.trace
              /\ features' = Append(features, row)
    /\ i' = i + 1
    /\ UNCHANGED <<config, ts, sf, pc, runs, result, first, now>>

\* later calls: the loop body runs on the next row of the recorded series
ReplayBar ==
    /\ pc = "loop"
    /\ runs > 1
    /\ i < Len(features)
    /\ LET b == ProcessBar(World, config, i, features[i + 1], now)
       IN  /\ bt' = b.w.bt /\ rm' = b.w.rm /\ cd' = b.w.cd
           /\ last' = b.trace
    /\ i' = i + 1
    /\ UNCHANGED <<config, ts, sf, pc, runs, result, features, first, now>>

NextReplay == ReplayRun \/ RecordBar \/ ReplayBar \/ EndOfSeries \/ Return

SpecReplay == Init /\ [][NextReplay]_vars

----------------------------------------------------------------------------
(* Specification SpecCooldown: one CooldownManager fed by update_status     *)
(* calls, in backtest mode or in realtime mode, while the wall clock runs.  *)
(* now is the clock in hours.  last is a history record of the feed:        *)
(*   clean  the current run of losses began while the cooldown was inactive *)
(*   run    consecutive losing trades fed since the last recovery           *)
(*   peak   the longest such run since the last recovery                    *)

MaxTrades == 6        \* trades fed to one CooldownManager
MaxTicks  == 2        \* advances of the wall clock
TickHours == 6 * 12   \* one advance: max_cooldown_treatment_duration hours

\* pnl of a losing, a flat and a winning trade, in 1/100 USDT
Pnls == {-500, 0, 500}

\* cooldown_treatment.mode is 'backtest' or 'realtime'
Modes == {"backtest", "realtime"}

NoFeed == [clean |-> TRUE, run |-> 0, peak |-> 0]

\* the history record after an update that took m to m2, fed with trade_result
Feed(h, m, m2, trade_result) ==
    LET recovered == m.cooldown_treatment_active /\ ~m2.cooldown_treatment_active
        loss      == ~IsNone(trade_result) /\ Val(trade_result).pnl < 0
        broken    == ~IsNone(trade_result) /\ Val(trade_result).pnl >= 0
        run       == IF recovered \/ broken THEN 0
                     ELSE IF loss THEN h.run + 1 ELSE h.run
    IN  [clean |-> IF loss /\ m.consecutive_losses = 0 THEN ~m.cooldown_treatment_active
                   ELSE IF broken THEN TRUE
                   ELSE h.clean,
         run   |-> run,
         peak  |-> IF recovered THEN 0 ELSE Max2(h.peak, run)]

InitCooldown ==
    /\ \E mode \in Modes : config = [OPTIMIZED_STRATEGY_CONFIG EXCEPT !.mode = mode]
    /\ rm = RiskManager(config)
    /\ cd = CooldownManager
    /\ sf = SignalFilter(SIGNAL_SCORE_FILTERS)
    /\ ts = TradingSystem
    /\ bt = Backtester
    /\ pc = "cooldown"
    /\ i = 0
    /\ runs = 0
    /\ result = None
    /\ last = NoFeed
    /\ features = <<>>
    /\ first = None
    /\ now = 1

\* update_status(trade_result, trade_time) with the result of a closed trade
UpdateStatus ==
    /\ pc = "cooldown"
    /\ Len(cd.trade_history) < MaxTrades
    /\ \E pnl \in Pnls, trade_time \in {NoTime, now} :
          LET trade_result == Some([pnl |-> pnl, timestamp |-> now, reason |-> "trade"])
          IN  /\ cd' = update_status(cd, config, trade_result, trade_time, now)
              /\ last' = Feed(last, cd, cd', trade_result)
    /\ UNCHANGED <<config, ts, sf, rm, bt, pc, i, runs, result, features, first, now>>

\* update_status() without a trade result
UpdateNoTrade ==
    /\ pc = "cooldown"
    /\ cd' = update_status(cd, config, None, NoTime, now)
    /\ last' = Feed(last, cd, cd', None)
    /\ UNCHANGED <<config, ts, sf, rm, bt, pc, i, runs, result, features, first, now>>

\* the wall clock advances
Tick ==
    /\ pc = "cooldown"
    /\ now < 1 + MaxTicks * TickHours
    /\ now' = now + TickHours
    /\ UNCHANGED <<config, ts, sf, rm, cd, bt, pc, i, runs, result, last, features, first>>

\* reset_state()
ResetState ==
    /\ pc = "cooldown"
    /\ cd # CooldownManager
    /\ cd' = CooldownManager
    /\ last' = NoFeed
    /\ UNCHANGED <<config, ts, sf, rm, bt, pc, i, runs, result, features, first, now>>

NextCooldown == UpdateStatus \/ UpdateNoTrade \/ Tick \/ ResetState

SpecCooldown == InitCooldown /\ [][NextCooldown]_vars

----------------------------------------------------------------------------
(* Claims about the backtest loop, checked under Spec                       *)

\* C1: single position invariant: in every backtest run, after every bar the
\* position is one of 0 (Flat), 1 (Long), -1 (Short), and position_quantity is
\* non-zero if and only if the position is not 0
C1_SinglePosition ==
    pc = "loop" =>
        /\ rm.position \in {-1, 0, 1}
        /\ (rm.position_quantity # 0) <=> (rm.position # 0)

\* C2 (under SpecReplay): a later run_backtest call on the same Backtester over
\* the same series returns the result of the first call: the same trade log,
\* equity curve, trade count and final cash
C2_Determinism ==
    (pc = "idle" /\ runs >= 2) => result = first

\* the second call returned, and the runs traded: open, close, open, force close
C2_Witness ==
    /\ pc = "idle"
    /\ runs = 2
    /\ ~IsNone(result)
    /\ result = first
    /\ Len(Val(result).trade_log) >= 4

\* C3: the trade log strictly alternates open, close, open, close, ... starting
\* with an open; a position is open exactly when the last record is an open, so an
\* open is appended only when Flat and a close only when a position is open
C3_Alternation ==
    pc \in {"loop", "end"} =>
        /\ \A k \in 1..Len(bt.trade_log) :
              bt.trade_log[k].trade_type = (IF k % 2 = 1 THEN "open" ELSE "close")
        /\ (rm.position # 0) <=> (Len(bt.trade_log) % 2 = 1)

\* a run that opened long, closed, and opened short
C3_Witness ==
    /\ pc = "loop"
    /\ Len(bt.trade_log) >= 3
    /\ bt.trade_log[1].action = "open_long"
    /\ bt.trade_log[3].action = "open_short"

\* C4: at a bar where a position is open, the fixed stop is enabled and the
\* leveraged fee-net ratio at the close price is <= -|fixed_stop_loss|, the
\* position is closed on that bar by exactly one close record whose reason is the
\* fixed stop and whose realized PnL is negative
C4_FixedStop ==
    [][ ( /\ i' = i + 1
          /\ rm.position # 0
          /\ config.enable_fixed_stop_loss
          /\ last'.ratio <= - Abs(config.fixed_stop_loss) )
        => ( /\ last'.closed
             /\ rm'.position = 0
             /\ Len(bt'.trade_log) = Len(bt.trade_log) + 1
             /\ LET rec == bt'.trade_log[Len(bt'.trade_log)]
                IN  /\ rec.trade_type = "close"
                    /\ rec.reason = "fixed_stop_loss"
                    /\ rec.pnl < 0 ) ]_vars

\* C5: when the risk check or the signal generation of a bar raises, that step
\* appends no record and leaves position and cash as they were, and the loop
\* goes on with the next bar
C5_FailureTolerance ==
    [][ i' = i + 1 =>
          /\ pc' = "loop"
          /\ last'.risk_raised =>
                /\ ~last'.closed
                /\ last'.pos_mid = rm.position
                /\ last'.cash_mid = bt.cash
                /\ last'.log_mid = Len(bt.trade_log)
          /\ last'.sig_raised =>
                /\ ~last'.opened
                /\ rm'.position = last'.pos_mid
                /\ bt'.cash = last'.cash_mid
                /\ Len(bt'.trade_log) = last'.log_mid ]_vars

\* a bar on which both the risk check and the signal generation raised, with the
\* position still open afterwards
C5_Witness ==
    /\ pc = "loop"
    /\ last.risk_raised /\ last.sig_raised
    /\ rm.position # 0
    /\ i < Max2(200, config.short_window) - 1 + MaxLiveBars

\* C6: while fewer than max(200, short_window) rows are available generate_signals
\* answers direction 0 with the insufficient-data reason and raises nothing, and
\* no open record is dated within the first max(200, short_window) - 1 bars
C6_InsufficientHistory ==
    /\ (pc = "loop" /\ 0 < i /\ i < Max2(200, config.short_window)) =>
          /\ last.signal = 0
          /\ last.sig_reason = "insufficient_data"
          /\ ~last.sig_raised
    /\ pc \in {"loop", "end"} =>
          \A k \in 1..Len(bt.trade_log) :
              bt.trade_log[k].trade_type = "open" =>
                  bt.trade_log[k].date >= Max2(200, config.short_window)

\* the first bar with enough history opens at once: the log holds an open record
\* dated max(200, short_window)
C6_Witness ==
    /\ pc = "loop"
    /\ i = Max2(200, config.short_window)
    /\ Len(bt.trade_log) = 1
    /\ bt.trade_log[1].date = Max2(200, config.short_window)

\* C7: at the end of the series the position is Flat; a position that was still
\* open is closed by exactly one more close record at the last close price, and the
\* returned final cash holds its margin and realized PnL
C7_ForceClose ==
    [][ /\ (pc = "loop" /\ pc' = "end") =>
            /\ rm'.position = 0
            /\ rm.position = 0 => (bt'.trade_log = bt.trade_log /\ bt'.cash = bt.cash)
            /\ rm.position # 0 =>
                  /\ Len(bt'.trade_log) = Len(bt.trade_log) + 1
                  /\ SubSeq(bt'.trade_log, 1, Len(bt.trade_log)) = bt.trade_log
                  /\ LET rec == bt'.trade_log[Len(bt'.trade_log)]
                     IN  /\ rec.trade_type = "close"
                         /\ rec.reason = "end_of_backtest"
                         /\ rec.price = last.close
                         /\ bt'.cash = bt.cash + rm.margin_value + rec.pnl
        /\ (pc = "end" /\ pc' = "idle") =>
            /\ Val(result').final_cash = bt.cash
            /\ Val(result').trade_log = bt.trade_log ]_vars

\* a run returned whose last record is the force close of a position with a
\* realized PnL other than 0
C7_Witness ==
    /\ pc = "idle"
    /\ ~IsNone(result)
    /\ LET log == Val(result).trade_log
       IN  /\ Len(log) >= 2
           /\ log[Len(log)].reason = "end_of_backtest"
           /\ log[Len(log)].pnl # 0
           /\ Val(result).final_cash = log[Len(log) - 1].cash + log[Len(log)].pnl
                 + (log[Len(log) - 1].cash * log[Len(log) - 1].position_size)
                       \div (Pct - log[Len(log) - 1].position_size)

----------------------------------------------------------------------------
(* Claims about the CooldownManager, checked under SpecCooldown             *)

\* C8: fed a losing trade, update_status raises consecutive_losses by exactly 1
\* (to 1 when the trade starts a streak); fed a winning trade, it leaves
\* consecutive_losses at 0
C8_StreakMonotone ==
    [][ Len(cd'.trade_history) = Len(cd.trade_history) + 1 =>
          LET pnl == cd'.trade_history[Len(cd'.trade_history)].pnl
          IN  /\ pnl < 0 => cd'.consecutive_losses = cd.consecutive_losses + 1
              /\ pnl > 0 => cd'.consecutive_losses = 0 ]_vars

\* a streak of three losses that followed a winning trade
C8_Witness ==
    /\ pc = "cooldown"
    /\ cd.consecutive_losses = 3
    /\ Len(cd.trade_history) = 4
    /\ cd.trade_history[1].pnl > 0

\* C9: the level is always one of 0, 1, 2, 3, and an update lowers it only by
\* the recovery transition, which sets level 0 and position_size_reduction 1.0
\* together, in either mode
C9_LevelBound ==
    [][ /\ cd'.cooldown_treatment_level \in 0..3
        /\ cd'.cooldown_treatment_level < cd.cooldown_treatment_level =>
              /\ cd'.cooldown_treatment_level = 0
              /\ cd'.position_size_reduction = Pct
              /\ ~cd'.cooldown_treatment_active ]_vars

\* a recovery just happened: two losses had activated the cooldown and the win
\* that followed reset it
C9_Witness ==
    /\ pc = "cooldown"
    /\ Len(cd.trade_history) = 3
    /\ cd.trade_history[1].pnl < 0 /\ cd.trade_history[2].pnl < 0
    /\ cd.trade_history[3].pnl > 0
    /\ cd.cooldown_treatment_level = 0
    /\ cd.position_size_reduction = Pct

\* the statement of C10 for the manager as it stands: for a run of losses that
\* began while the cooldown was inactive, the cooldown is active at level 1 with T
\* losses, level 2 with T + 1, level 3 with T + 2 or more, and it is active only
\* when T consecutive losses occurred since the last recovery
EscalationRule ==
    LET T == config.consecutive_loss_threshold
    IN  /\ last.clean =>
              /\ cd.consecutive_losses = T =>
                    cd.cooldown_treatment_active /\ cd.cooldown_treatment_level = 1
              /\ cd.consecutive_losses = T + 1 =>
                    cd.cooldown_treatment_active /\ cd.cooldown_treatment_level = 2
              /\ cd.consecutive_losses >= T + 2 =>
                    cd.cooldown_treatment_active /\ cd.cooldown_treatment_level = 3
        /\ cd.cooldown_treatment_active => last.peak >= T

----------------------------------------------------------------------------
(* Specification SpecRecovery: one CooldownManager in backtest mode whose    *)
(* recovery_conditions.consecutive_wins is 1 (the default) or 2, fed by      *)
(* update_status calls.                                                     *)

\* values of backtest_mode.recovery_conditions.consecutive_wins
RecoveryWins == {1, 2}

InitRecovery ==
    /\ \E n \in RecoveryWins :
          config = [OPTIMIZED_STRATEGY_CONFIG EXCEPT !.mode = "backtest",
                                                     !.consecutive_wins = n]
    /\ rm = RiskManager(config)
    /\ cd = CooldownManager
    /\ sf = SignalFilter(SIGNAL_SCORE_FILTERS)
    /\ ts = TradingSystem
    /\ bt = Backtester
    /\ pc = "cooldown"
    /\ i = 0
    /\ runs = 0
    /\ result = None
    /\ last = NoFeed
    /\ features = <<>>
    /\ first = None
    /\ now = 1

\* the feed alone: update_status calls and the clock, no reset_state
NextRecovery == UpdateStatus \/ UpdateNoTrade \/ Tick

SpecRecovery == InitRecovery /\ [][NextRecovery]_vars

\* C11 (under SpecRecovery): while the cooldown is active in backtest mode, the
\* update that brings consecutive_wins to the configured count N sets active to
\* false, the level to 0 and the reduction factor to 1.0; an update that leaves
\* fewer than N consecutive wins keeps the cooldown active and does not lower the
\* level, and a win among them leaves level and factor as they were
C11_BacktestRecovery ==
    [][ (config.mode = "backtest" /\ cd.cooldown_treatment_active) =>
          /\ cd'.consecutive_wins >= config.consecutive_wins =>
                /\ ~cd'.cooldown_treatment_active
                /\ cd'.cooldown_treatment_level = 0
                /\ cd'.position_size_reduction = Pct
          /\ cd'.consecutive_wins < config.consecutive_wins =>
                /\ cd'.cooldown_treatment_active
                /\ cd'.cooldown_treatment_level >= cd.cooldown_treatment_level
                /\ cd'.consecutive_wins > 0 =>
                      /\ cd'.cooldown_treatment_level = cd.cooldown_treatment_level
                      /\ cd'.position_size_reduction = cd.position_size_reduction ]_vars

\* N = 2: three losses raised the level to 2, the first win left it there and the
\* second win has just reset the cooldown
C11_Witness ==
    /\ pc = "cooldown"
    /\ config.mode = "backtest"
    /\ config.consecutive_wins = 2
    /\ Len(cd.trade_history) = 5
    /\ \A k \in 1..3 : cd.trade_history[k].pnl < 0
    /\ cd.consecutive_wins = 2
    /\ ~cd.cooldown_treatment_active
    /\ cd.cooldown_treatment_level = 0
    /\ cd.position_size_reduction = Pct

----------------------------------------------------------------------------
(* Specification SpecPnl: the PnL arithmetic of the RiskManager.  A          *)
(* Backtester opens a position with open_position and the per-bar update of  *)
(* run_backtest marks it to market at a later price; trading_fee is the      *)
(* configured 0.001 or 0.  last holds the value calculate_unrealized_pnl     *)
(* returned in the last update.                                             *)

\* Backtester.cash at the open, 1/100 USDT: 0 (after a loss larger than the equity,
\* where close_position clamps the cash), 500.00, 1000.00
Cashes == {0, 50000, 100000}

\* trading_fee, ppm
Fees == {0, 1000}

\* position sizes of _calculate_position_size, 1/100
Sizes == {50, 80}

InitPnl ==
    /\ \E fee \in Fees : config = [OPTIMIZED_STRATEGY_CONFIG EXCEPT !.trading_fee = fee]
    /\ rm = RiskManager(config)
    /\ cd = CooldownManager
    /\ sf = SignalFilter(SIGNAL_SCORE_FILTERS)
    /\ ts = TradingSystem
    /\ \E cash \in Cashes : bt = [Backtester EXCEPT !.cash = cash]
    /\ pc = "pnl"
    /\ i = 0
    /\ runs = 0
    /\ result = None
    /\ last = [net_pnl |-> 0]
    /\ features = <<>>
    /\ first = None
    /\ now = 0

\* open_position(signal, price, ...) on a flat strategy
OpenPosition ==
    /\ pc = "pnl"
    /\ rm.position = 0
    /\ \E signal \in {-1, 1}, price \in Prices, size \in Sizes :
          LET signal_info == [signal |-> signal, signal_score |-> signal * 60,
                              size |-> size, reason |-> "signal", raised |-> FALSE]
              w == open_position(World, config, signal, price, 1, signal_info)
          IN  /\ bt' = w.bt /\ rm' = w.rm /\ cd' = w.cd
              /\ last' = [net_pnl |-> w.rm.position_unrealized_pnl]
    /\ i' = 1
    /\ UNCHANGED <<config, ts, sf, pc, runs, result, features, first, now>>

\* the per-bar update of run_backtest: update_position_info at the bar's close,
\* which calls calculate_unrealized_pnl
MarkToMarket ==
    /\ pc = "pnl"
    /\ rm.position # 0
    /\ \E price \in Prices :
          /\ rm' = update_position_info(rm, config, rm.position, rm.entry_price, price,
                                        i + 1, 0, None, None)
          /\ last' = [net_pnl |-> rm'.position_unrealized_pnl]
    /\ i' = 2
    /\ UNCHANGED <<config, ts, sf, cd, bt, pc, runs, result, features, first, now>>

NextPnl == OpenPosition \/ MarkToMarket

SpecPnl == InitPnl /\ [][NextPnl]_vars

\* C12 (under SpecPnl): with fee rate 0, calculate_unrealized_pnl returns a value
\* > 0 for every long position whose current price is above the entry price and
\* for every short position whose current price is below the entry price
C12_PnlSign ==
    (pc = "pnl" /\ config.trading_fee = 0 /\ rm.position # 0) =>
        /\ (rm.position = 1 /\ rm.current_price > rm.entry_price) => last.net_pnl > 0
        /\ (rm.position = -1 /\ rm.current_price < rm.entry_price) => last.net_pnl > 0

\* C13 (under SpecPnl): for an open position the unrealized net PnL is
\* priceChangeRatio * leverage * margin - quantity * currentPrice * feeRate, with
\* priceChangeRatio = (current - entry) / entry for a long and (entry - current) /
\* entry for a short; pnlPercent is netPnl / margin, and 0 when the margin is 0;
\* and _calculate_ratio(currentPrice, leverage) equals pnlPercent when margin > 0
\* (equal up to the last digit of the fixed-point pnlPercent)
C13_PnlFormula ==
    (pc = "pnl" /\ rm.position # 0) =>
        LET change == IF rm.position = 1 THEN rm.current_price - rm.entry_price
                      ELSE rm.entry_price - rm.current_price
            gross  == (change * rm.leverage * rm.margin_value) \div rm.entry_price
            fee    == (((rm.position_quantity * rm.current_price) \div QtyScale)
                          * config.trading_fee) \div Ppm
            ratio  == calculate_ratio(rm, config, rm.current_price, rm.leverage)
        IN  /\ last.net_pnl = gross - fee
            /\ rm.position_unrealized_pnl = last.net_pnl
            /\ rm.position_unrealized_pnl_percent =
                  (IF rm.margin_value = 0 THEN 0
                   ELSE (last.net_pnl * Mille) \div rm.margin_value)
            /\ rm.margin_value > 0 =>
                  Abs(ratio \div (Ppm \div Mille) - rm.position_unrealized_pnl_percent) <= 1

\* a short marked to market below its entry price, with the fee charged: the net
\* PnL and the PnL percent are positive
C13_Witness ==
    /\ pc = "pnl"
    /\ i = 2
    /\ config.trading_fee > 0
    /\ rm.position = -1
    /\ rm.margin_value > 0
    /\ rm.current_price < rm.entry_price
    /\ last.net_pnl > 0
    /\ rm.position_unrealized_pnl_percent > 0

----------------------------------------------------------------------------
(* Claims about the ledger of a backtest, checked under Spec                *)

\* C14: every close record of a backtest, from a risk exit or from the force close
\* at the end of the series, carries the net PnL evaluated at the record's own
\* price, the close of the bar: gross leveraged PnL on the margin minus
\* quantity * closePrice * feeRate
C14_RealizedAtClose ==
    [][ ( /\ Len(bt'.trade_log) = Len(bt.trade_log) + 1
          /\ bt'.trade_log[Len(bt'.trade_log)].trade_type = "close" ) =>
          LET rec    == bt'.trade_log[Len(bt'.trade_log)]
              change == IF rm.position = 1 THEN rec.price - rm.entry_price
                        ELSE rm.entry_price - rec.price
              gross  == (change * rm.leverage * rm.margin_value) \div rm.entry_price
              fee    == (((rm.position_quantity * rec.price) \div QtyScale)
                            * config.trading_fee) \div Ppm
          IN  /\ rec.price = last'.close
              /\ rec.pnl = gross - fee ]_vars

\* a risk exit with a profit, at a price other than the entry price, of a position
\* that was held over an earlier bar at yet another price
C14_Witness ==
    /\ pc = "loop"
    /\ last.closed
    /\ Len(bt.trade_log) >= 2
    /\ LET rec  == bt.trade_log[Len(bt.trade_log)]
           open == bt.trade_log[Len(bt.trade_log) - 1]
       IN  /\ rec.trade_type = "close"
           /\ rec.pnl > 0
           /\ rec.price # open.price
           /\ rec.date > open.date + 1

\* C15: at every step of a backtest at which a position is open, position_value
\* equals margin_value * leverage, right after the open and after every later
\* per-bar update (up to the rounding of the fixed-point quantity: one money unit
\* times the leverage)
C15_MarginNotional ==
    (pc = "loop" /\ rm.position # 0) =>
        Abs(rm.position_value - rm.margin_value * rm.leverage) <= rm.leverage

----------------------------------------------------------------------------
(* Specification SpecFilter: one SignalFilter, called twice with the same    *)
(* arguments.  features holds the arguments of the call (signal, the fields  *)
(* of the current row, the scores), first what the first call returned and   *)
(* result what the second call returned.                                     *)

\* the switches of the instance: all stages enabled (the configuration), one stage
\* alone, or the entanglement stage alone with a wide distance threshold of 6 %
FilterConfigs ==
    { SIGNAL_SCORE_FILTERS }
    \cup
    { [SIGNAL_SCORE_FILTERS EXCEPT
          !.enable_price_deviation_filter = FALSE,
          !.enable_rsi_filter             = FALSE,
          !.enable_volatility_filter      = FALSE,
          !.enable_signal_score_filter    = FALSE,
          !.entanglement_distance_threshold = 600] }
    \cup
    { [SIGNAL_SCORE_FILTERS EXCEPT
          !.enable_price_deviation_filter = (s = "price_deviation"),
          !.enable_rsi_filter             = (s = "rsi"),
          !.enable_volatility_filter      = (s = "volatility"),
          !.enable_signal_score_filter    = (s = "signal_score"),
          !.enable_price_ma_entanglement  = (s = "entanglement")] :
        s \in {StageOrder[k] : k \in 1..Len(StageOrder)} }

\* arguments that pass every stage: a long signal above rising averages, a short
\* signal below falling ones
GoodCall(signal) ==
    IF signal = 1
    THEN [signal |-> 1, close |-> Num(200), low |-> Num(192), high |-> Num(201),
          lineWMA |-> Num(190), rsi |-> Num(50), openEMA |-> Num(195),
          closeEMA |-> Num(193), atr |-> Missing, market_regime |-> Num(0),
          window_len |-> Num(50), window_std |-> Num(10000),
          trend_score |-> Num(60), base_score |-> Num(60)]
    ELSE [signal |-> -1, close |-> Num(200), low |-> Num(199), high |-> Num(208),
          lineWMA |-> Num(210), rsi |-> Num(50), openEMA |-> Num(205),
          closeEMA |-> Num(207), atr |-> Missing, market_regime |-> Num(0),
          window_len |-> Num(50), window_std |-> Num(10000),
          trend_score |-> Num(-60), base_score |-> Num(-60)]

\* one field replaced by another value
Variations ==
    { [field |-> fld, value |-> v] :
        fld \in {"low", "high", "lineWMA", "rsi", "openEMA", "closeEMA",
                 "trend_score", "base_score"},
        v \in {Missing, NaN, Text} }
    \cup { [field |-> "low", value |-> Num(199)], [field |-> "high", value |-> Num(201)],
           [field |-> "lineWMA", value |-> Num(0)], [field |-> "lineWMA", value |-> Num(200)],
           [field |-> "rsi", value |-> Num(50)],
           [field |-> "rsi", value |-> Num(90)], [field |-> "rsi", value |-> Num(20)],
           [field |-> "openEMA", value |-> Num(200)],
           [field |-> "atr", value |-> Num(12)],
           [field |-> "market_regime", value |-> Num(1)],
           [field |-> "market_regime", value |-> Num(2)],
           [field |-> "window_len", value |-> Num(10)],
           [field |-> "window_std", value |-> Num(1000)],
           [field |-> "window_std", value |-> Num(700000)],
           [field |-> "window_std", value |-> NaN],
           [field |-> "window_std", value |-> Text],
           [field |-> "trend_score", value |-> Num(10)],
           [field |-> "trend_score", value |-> Num(-10)],
           [field |-> "base_score", value |-> Num(10)],
           [field |-> "base_score", value |-> Num(-10)] }

\* the calls: a neutral signal, and a passing call with up to two fields replaced
FilterCalls ==
    { [GoodCall(1) EXCEPT !.signal = 0] }
    \cup
    { [[GoodCall(s) EXCEPT ![a.field] = a.value] EXCEPT ![b.field] = b.value] :
        s \in {-1, 1}, a \in Variations, b \in Variations }

InitFilter ==
    /\ config = OPTIMIZED_STRATEGY_CONFIG
    /\ rm = RiskManager(config)
    /\ cd = CooldownManager
    /\ \E fc \in FilterConfigs : sf = SignalFilter(fc)
    /\ ts = TradingSystem
    /\ bt = Backtester
    /\ pc = "filter"
    /\ i = 0
    /\ runs = 0
    /\ result = None
    /\ last = NoTrace
    /\ features = <<>>
    /\ first = None
    /\ now = 0

\* filter_signal(signal, features, current_index, trend_score=..., base_score=...)
FilterSignal ==
    /\ pc = "filter"
    /\ i = 0
    /\ \E x \in FilterCalls :
          LET r == SignalFilter_filter_signal(sf, x.signal, x, x.trend_score, x.base_score)
          IN  /\ features' = <<x>>
              /\ first' = Some(r.out)
              /\ sf' = r.self
    /\ i' = 1
    /\ UNCHANGED <<config, ts, rm, cd, bt, pc, runs, result, last, now>>

\* the same call again
FilterAgain ==
    /\ pc = "filter"
    /\ i = 1
    /\ LET x == features[1]
           r == SignalFilter_filter_signal(sf, x.signal, x, x.trend_score, x.base_score)
       IN  /\ result' = Some(r.out)
           /\ sf' = r.self
    /\ i' = 2
    /\ UNCHANGED <<config, ts, rm, cd, bt, pc, runs, last, features, first, now>>

NextFilter == FilterSignal \/ FilterAgain

SpecFilter == InitFilter /\ [][NextFilter]_vars

Bad(x) == x.kind \in {"missing", "nan", "text"}

\* the fields whose values the vetoing comparison of a stage read
VetoFields(reason, x) ==
    IF reason = "price_deviation_long" THEN {x.lineWMA, x.low}
    ELSE IF reason = "price_deviation_short" THEN {x.lineWMA, x.high}
    ELSE IF reason \in {"rsi_overbought", "rsi_oversold"} THEN {x.rsi}
    ELSE IF reason \in {"volatility_low", "volatility_high"} THEN {x.window_std}
    ELSE IF reason \in {"long_trend_weak", "short_trend_weak"} THEN {x.trend_score}
    ELSE IF reason \in {"long_base_weak", "short_base_weak"} THEN {x.base_score}
    ELSE {x.lineWMA, x.openEMA, x.closeEMA}

\* C17 (under SpecFilter): an enabled stage whose indicator field is missing, NaN
\* or non-numeric passes the direction on to the next stage: no stage turns the
\* signal into 0 on a bad field, and filter_signal does not raise
C17_FailOpen ==
    (pc = "filter" /\ i >= 1) =>
        LET x   == features[1]
            out == Val(first)
        IN  /\ ~out.raised
            /\ \A k \in 1..Len(out.trail) :
                  out.trail[k].verdict = "veto" =>
                      \A fld \in VetoFields(out.trail[k].reason, x) : ~Bad(fld)

----------------------------------------------------------------------------
(* Specification SpecSignal: generate_signals of one strategy on windows of  *)
(* MinRequiredData rows whose last row is drawn from SignalRows.  features   *)
(* holds that row and result the signal_info returned.                      *)

\* base scores (row['signal_score']) and trend scores, 1/100
BaseScores  == {-60, -20, 0, 20, 60}
TrendScores == {-60, 0, 60}

SignalRows ==
    { [close |-> p, signal_score |-> b, trend_score |-> tr, lineWMA |-> 0,
       numeric |-> TRUE, veto |-> v] :
        p \in Prices, b \in BaseScores, tr \in TrendScores, v \in BOOLEAN }

InitSignal ==
    /\ config = OPTIMIZED_STRATEGY_CONFIG
    /\ rm \in LoadedRiskManagers(config)
    /\ cd \in LoadedCooldownManagers
    /\ sf = SignalFilter(SIGNAL_SCORE_FILTERS)
    /\ ts = TradingSystem
    /\ bt = Backtester
    /\ pc = "signal"
    /\ i = 0
    /\ runs = 0
    /\ result = None
    /\ last = NoTrace
    /\ features = <<>>
    /\ first = None
    /\ now = 0

\* generate_signals(features) with enough history
GenerateSignals ==
    /\ pc = "signal"
    /\ \E row \in SignalRows :
          LET gs == generate_signals(rm, cd, config, MinRequiredData(config), row)
          IN  /\ result' = Some(gs.info)
              /\ rm' = [gs.rm EXCEPT !.holding_periods = Min2(@, 4)]
              /\ features' = <<row>>
    /\ UNCHANGED <<config, ts, sf, cd, bt, pc, i, runs, last, first, now>>

NextSignal == GenerateSignals

SpecSignal == InitSignal /\ [][NextSignal]_vars

\* C18 (under SpecSignal): the pre-filter direction of a step is +1 iff the
\* composite score (baseScore * w_signal + trendScore * w_trend, the risk and
\* drawdown weights being 0) is above long_threshold, -1 iff it is below
\* short_threshold, and 0 otherwise
C18_DirectionRule ==
    (pc = "signal" /\ ~IsNone(result)) =>
        LET info      == Val(result)
            composite == info.signal_score
        IN  /\ info.signal_score =
                  (features[1].signal_score * config.signal_weight
                     + features[1].trend_score * config.trend_weight) \div Pct
            /\ (info.original_signal = 1) <=> (composite > config.long_threshold)
            /\ (info.original_signal = -1) <=> (composite < config.short_threshold)
            /\ info.original_signal \in {-1, 0, 1}

----------------------------------------------------------------------------
(* The equity curve of a backtest (under Spec).                              *)

\* C19: after run_backtest has processed k bars the equity curve holds exactly k
\* entries, total_assets and asset_timestamps alike, the k-th stamped with the
\* k-th bar, whatever the bars did (exit, open, raised risk check or signal
\* generation); the force close adds none and the result carries the same curve
C19_EquityComplete ==
    /\ pc \in {"loop", "end"} =>
          /\ Len(bt.total_assets) = i
          /\ Len(bt.asset_timestamps) = i
          /\ \A k \in 1..i : bt.asset_timestamps[k] = k
    /\ (pc = "idle" /\ ~IsNone(result)) =>
          /\ Len(Val(result).total_assets) = i
          /\ Len(Val(result).asset_timestamps) = i

\* a run whose bars so far include an open, a risk exit and a bar on which the
\* signal generation raised
C19_Witness ==
    /\ pc = "loop"
    /\ i > MinRequiredData(config)
    /\ last.sig_raised
    /\ Len(bt.total_assets) = i
    /\ \E k \in 1..Len(bt.trade_log) : bt.trade_log[k].trade_type = "close"

\* C20: the value appended for a bar is cash + margin + unrealized PnL, the PnL
\* being the gross leveraged PnL on the margin minus the fee on the notional, both
\* at that bar's close, when a position is open at the end of the bar, and exactly
\* cash when flat; on a bar that opened a position at price p the value is the
\* cash before the open minus the fee quantity * p * feeRate
C20_EquityValue ==
    [][ i' = i + 1 =>
          LET value  == bt'.total_assets[Len(bt'.total_assets)]
              p      == last'.close
              change == IF rm'.position = 1 THEN p - rm'.entry_price
                        ELSE rm'.entry_price - p
              fee    == (((rm'.position_quantity * p) \div QtyScale)
                            * config.trading_fee) \div Ppm
              gross  == IF rm'.entry_price = 0 THEN 0
                        ELSE (change * rm'.leverage * rm'.margin_value) \div rm'.entry_price
          IN  /\ Len(bt'.total_assets) = Len(bt.total_assets) + 1
              /\ rm'.position # 0 => value = bt'.cash + rm'.margin_value + gross - fee
              /\ rm'.position = 0 => value = bt'.cash
              /\ last'.opened => /\ rm'.position # 0
                                 /\ rm'.entry_price = p
                                 /\ value = bt.cash - fee ]_vars

\* a bar that ends with a position opened on an earlier bar, marked at a close
\* other than its entry price, after a curve entry for the opening bar that is
\* below the cash before the open by the fee
C20_Witness ==
    /\ pc = "loop"
    /\ rm.position # 0 /\ rm.position_quantity > 0
    /\ ~last.opened
    /\ last.close # rm.entry_price
    /\ i >= 2
    /\ bt.total_assets[i] = bt.cash + rm.margin_value + rm.position_unrealized_pnl
    /\ bt.total_assets[i] # bt.total_assets[i - 1]
    /\ \E k \in 2..(i - 1) : bt.total_assets[k] < bt.total_assets[k - 1]
                             /\ bt.total_assets[k] > bt.cash

----------------------------------------------------------------------------
(* The entry step of a backtest (under Spec).                                *)

\* C21 as stated: at every bar where the position is Flat after the exit step and
\* the filtered direction is non-zero (should_open_position then allows the open),
\* a position is opened on that bar and an open record is appended, also on a bar
\* whose exit step closed a position
C21_EntryAlways ==
    [][ ( /\ i' = i + 1
          /\ last'.pos_mid = 0
          /\ last'.signal # 0 ) =>
          /\ last'.opened
          /\ rm'.position = last'.signal
          /\ Len(bt'.trade_log) = last'.log_mid + 1
          /\ bt'.trade_log[Len(bt'.trade_log)].trade_type = "open"
          /\ bt'.trade_log[Len(bt'.trade_log)].date = i' ]_vars

\* C21: at every bar where the position is Flat after the exit step, the exit
\* step closed nothing on that bar and the filtered direction is non-zero, a
\* position is opened in that direction and an open record is appended; on a bar
\* whose exit step closed a position nothing is opened, whatever the direction
C21_EntryUnlessClosed ==
    [][ i' = i + 1 =>
          /\ ( /\ last'.pos_mid = 0 /\ ~last'.closed /\ last'.signal # 0 ) =>
                /\ last'.opened
                /\ rm'.position = last'.signal
                /\ Len(bt'.trade_log) = last'.log_mid + 1
                /\ bt'.trade_log[Len(bt'.trade_log)].trade_type = "open"
                /\ bt'.trade_log[Len(bt'.trade_log)].date = i'
          /\ last'.closed =>
                /\ ~last'.opened
                /\ rm'.position = 0
                /\ Len(bt'.trade_log) = last'.log_mid ]_vars

\* a bar whose exit step closed a position and whose filtered direction was
\* non-zero, after a run that opened a position on an earlier bar
C21_Witness ==
    /\ pc = "loop"
    /\ last.closed /\ last.signal # 0 /\ last.pos_mid = 0
    /\ rm.position = 0
    /\ Len(bt.trade_log) >= 2

----------------------------------------------------------------------------
(* Specification SpecRisk: one RiskManager driven through its public        *)
(* methods with arbitrary arguments.  last holds the method called last,    *)
(* its arguments and what it returned, until the driver has read it         *)
(* (Forget) and makes the next call.                                        *)

\* entry prices handed to update_position_info (0: no entry price known)
RiskEntries == {0, 140, 200}

\* quantities handed to set_position_quantity, 1/1000
RiskQuantities == {0, 4000}

\* Optional leverage and margin_value arguments of update_position_info
RiskLeverages == {None, Some(0)}
RiskMargins == {None, Some(0), Some(160)}

\* current prices handed to update_position_info
RiskMarks == {140, 200}

\* feature rows handed to the checks
RiskRows ==
    { [close |-> 0, signal_score |-> s, trend_score |-> 0, lineWMA |-> wma,
       numeric |-> TRUE, veto |-> FALSE] : s \in {-40, 40}, wma \in {0, 195} }
    \cup
    { [close |-> 0, signal_score |-> 0, trend_score |-> 0, lineWMA |-> 0,
       numeric |-> FALSE, veto |-> FALSE] }

\* take_profit_config: every combination of the three rule switches, the time rule
\* after 1 holding period
RiskConfigs ==
    { [OPTIMIZED_STRATEGY_CONFIG EXCEPT !.enable_callback = cb,
                                        !.linewma_take_profit_enabled = wma,
                                        !.time_based_take_profit = tb,
                                        !.time_based_periods = 1] :
        cb \in BOOLEAN, wma \in BOOLEAN, tb \in BOOLEAN }

\* holding periods counted by the driver
MaxHolding == 1

NoCall == [op |-> "none", signal |-> 0, price |-> 0, row |-> CHOOSE x \in RiskRows : ~x.numeric,
           out |-> FALSE, action |-> "none", raised |-> FALSE, reason |-> "none",
           ratio |-> 0, margin |-> 0]

InitRisk ==
    /\ config \in RiskConfigs
    /\ rm = RiskManager(config)
    /\ cd = CooldownManager
    /\ sf = SignalFilter(SIGNAL_SCORE_FILTERS)
    /\ ts = TradingSystem
    /\ bt = Backtester
    /\ pc = "risk"
    /\ i = 0
    /\ runs = 0
    /\ result = None
    /\ last = NoCall
    /\ features = <<>>
    /\ first = None
    /\ now = 0

\* set_position_quantity(quantity)
SetPositionQuantity ==
    /\ pc = "risk" /\ last.op = "none"
    /\ \E quantity \in RiskQuantities : rm' = set_position_quantity(rm, quantity)
    /\ last' = NoCall
    /\ UNCHANGED <<config, ts, sf, cd, bt, pc, i, runs, result, features, first, now>>

\* update_position_info(position, entry_price, current_price, current_time, 0.0,
\* leverage, margin_value)
UpdatePositionInfo ==
    /\ pc = "risk" /\ last.op = "none"
    /\ \E position \in {-1, 0, 1}, entry_price \in RiskEntries, current_price \in RiskMarks,
          leverage \in RiskLeverages, margin_value \in RiskMargins :
          rm' = update_position_info(rm, config, position, entry_price, current_price,
                                     1, 0, leverage, margin_value)
    /\ last' = NoCall
    /\ UNCHANGED <<config, ts, sf, cd, bt, pc, i, runs, result, features, first, now>>

\* update_holding_periods()
UpdateHoldingPeriods ==
    /\ pc = "risk" /\ last.op = "none"
    /\ rm.holding_periods < MaxHolding
    /\ rm' = update_holding_periods(rm)
    /\ last' = NoCall
    /\ UNCHANGED <<config, ts, sf, cd, bt, pc, i, runs, result, features, first, now>>

\* should_open_position(signal): only reads the instance
ShouldOpenPosition ==
    /\ pc = "risk" /\ last.op = "none"
    /\ \E signal \in {-1, 0, 1} :
          last' = [NoCall EXCEPT !.op = "should_open_position", !.signal = signal,
                                 !.out = should_open_position(rm, signal)]
    /\ UNCHANGED <<config, ts, rm, sf, cd, bt, pc, i, runs, result, features, first, now>>

\* the driver has read what the last call returned
Forget ==
    /\ pc = "risk" /\ last.op # "none"
    /\ last' = NoCall
    /\ UNCHANGED <<config, ts, rm, sf, cd, bt, pc, i, runs, result, features, first, now>>

\* calculate_unrealized_pnl(), _calculate_ratio(price, leverage) and
\* _get_margin_value() on the instance as it is (every division of the three is
\* behind its guard, so none of them has a raising path)
CalculatePnl ==
    /\ pc = "risk" /\ last.op = "none"
    /\ \E price \in Prices :
          /\ rm' = calculate_unrealized_pnl(rm, config)
          /\ last' = [NoCall EXCEPT !.op = "calculate_pnl", !.price = price,
                                    !.ratio = calculate_ratio(rm, config, price, rm.leverage),
                                    !.margin = get_margin_value_derived(rm),
                                    !.raised = FALSE]
    /\ UNCHANGED <<config, ts, sf, cd, bt, pc, i, runs, result, features, first, now>>

\* check_risk_management(current_price, current_features): the water marks are
\* updated before the checks, and stay updated when a check raises
CheckRiskManagement ==
    /\ pc = "risk" /\ last.op = "none"
    /\ \E price \in Prices, row \in RiskRows :
          LET res == check_risk_management(rm, config, price, row)
          IN  /\ rm' = res.rm
              /\ last' = [NoCall EXCEPT !.op = "check_risk_management", !.price = price,
                                        !.row = row, !.action = res.action,
                                        !.raised = res.raised, !.reason = res.reason,
                                        !.ratio = calculate_ratio(rm, config, price,
                                                                  rm.leverage)]
    /\ UNCHANGED <<config, ts, sf, cd, bt, pc, i, runs, result, features, first, now>>

\* should_take_profit(current_price, current_features), called directly: only
\* reads the instance
ShouldTakeProfit ==
    /\ pc = "risk" /\ last.op = "none"
    /\ \E price \in Prices, row \in RiskRows :
          LET res == should_take_profit(rm, config, price, row)
          IN  last' = [NoCall EXCEPT !.op = "should_take_profit", !.price = price,
                                    !.row = row, !.out = res.hit,
                                    !.raised = res.raised, !.reason = res.reason,
                                    !.ratio = calculate_ratio(rm, config, price,
                                                              rm.leverage)]
    /\ UNCHANGED <<config, ts, rm, sf, cd, bt, pc, i, runs, result, features, first, now>>

NextRisk ==
    \/ Forget
    \/ CheckRiskManagement
    \/ ShouldTakeProfit
    \/ CalculatePnl
    \/ SetPositionQuantity
    \/ UpdatePositionInfo
    \/ UpdateHoldingPeriods
    \/ ShouldOpenPosition

SpecRisk == InitRisk /\ [][NextRisk]_vars

\* C22 (under SpecRisk): should_open_position(direction) returns false for
\* direction 0, false when direction equals the direction of the open position,
\* true in every other case (Flat with a non-zero direction, or the direction
\* opposite to the open position); the call changes no RiskManager state
C22_ShouldOpen ==
    [][ last'.op = "should_open_position" =>
          /\ rm' = rm
          /\ last'.signal = 0 => ~last'.out
          /\ (last'.signal # 0 /\ last'.signal = rm.position) => ~last'.out
          /\ (last'.signal # 0 /\ last'.signal # rm.position) => last'.out ]_vars

\* should_open_position answered true for the direction opposite to an open long
C22_Witness ==
    /\ pc = "risk"
    /\ last.op = "should_open_position"
    /\ rm.position = 1 /\ rm.position_quantity > 0
    /\ last.signal = -1
    /\ last.out

----------------------------------------------------------------------------
(* Position sizing in a backtest (under Spec).                               *)

\* C23: the size recommended on a bar is 0 for direction 0; for direction +1 its
\* base is full_position_size if compositeScore >= full_position_threshold_max,
\* else avg_adjusted_position; for -1 it is full_position_size if compositeScore
\* <= full_position_threshold_min, else avg_adjusted_position; the size is base *
\* riskMultiplier * (the cooldown factor if the cooldown is active, else 1)
\* clamped to [0, max_adjusted_position]; and the margin an open commits is
\* cash * that size, taken out of the cash
C23_PositionSize ==
    [][ i' = i + 1 =>
          LET base   == IF last'.signal = 1
                        THEN (IF last'.score >= config.full_position_threshold_max
                              THEN config.full_position_size
                              ELSE config.avg_adjusted_position)
                        ELSE (IF last'.score <= config.full_position_threshold_min
                              THEN config.full_position_size
                              ELSE config.avg_adjusted_position)
              risked == (base * rm.risk_multiplier) \div Pct
              cooled == IF cd'.cooldown_treatment_active
                        THEN (risked * cd'.position_size_reduction) \div Pct
                        ELSE risked
              size   == IF last'.signal = 0 THEN 0
                        ELSE IF cooled < 0 THEN 0
                        ELSE IF cooled > config.max_adjusted_position
                        THEN config.max_adjusted_position
                        ELSE cooled
          IN  /\ last'.size = size
              /\ last'.opened =>
                    /\ rm'.margin_value = (bt.cash * size) \div Pct
                    /\ bt'.cash = bt.cash - rm'.margin_value
                    /\ bt'.trade_log[Len(bt'.trade_log)].position_size = size ]_vars

\* a bar that recommends the full size for a short, reduced by the factor of the
\* active cooldown and below the clamp, in a run that opened a position with a
\* clamped full size on an earlier bar
C23_Witness ==
    /\ pc = "loop"
    /\ last.signal = -1
    /\ last.score <= config.full_position_threshold_min
    /\ cd.cooldown_treatment_active
    /\ last.size = (config.full_position_size * cd.position_size_reduction) \div Pct
    /\ last.size < config.max_adjusted_position
    /\ \E k \in 1..Len(bt.trade_log) :
          /\ bt.trade_log[k].trade_type = "open"
          /\ bt.trade_log[k].position_size = config.max_adjusted_position

\* C24 (under SpecRisk): the PnL and ratio computations return 0 and do not raise
\* where a divisor is 0: calculate_unrealized_pnl (PnL and PnL percent) and
\* _calculate_ratio return 0 for entry price 0; for margin 0 the PnL percent is 0
\* and the fee ratio is 0, so that _calculate_ratio is the gross leveraged ratio;
\* the derived margin is 0 for leverage 0; for every position state and price
C24_ZeroGuards ==
    [][ last'.op = "calculate_pnl" =>
          /\ ~last'.raised
          /\ rm.entry_price = 0 =>
                /\ last'.ratio = 0
                /\ rm'.position_unrealized_pnl = 0
                /\ rm'.position_unrealized_pnl_percent = 0
          /\ rm.margin_value = 0 =>
                /\ rm'.position_unrealized_pnl_percent = 0
                /\ last'.ratio =
                      (IF rm.position = 0 \/ rm.entry_price = 0 THEN 0
                       ELSE ((IF rm.position = 1 THEN last'.price - rm.entry_price
                              ELSE rm.entry_price - last'.price) * rm.leverage * Ppm)
                               \div rm.entry_price)
          /\ rm.leverage = 0 => last'.margin = 0 ]_vars

\* the computations ran on a long with a quantity and a margin but entry price 0
\* and leverage 0, at a price above 0
C24_Witness ==
    /\ pc = "risk"
    /\ last.op = "calculate_pnl"
    /\ rm.position = 1 /\ rm.position_quantity > 0
    /\ rm.entry_price = 0 /\ rm.leverage = 0 /\ rm.margin_value > 0
    /\ rm.current_price > 0
    /\ last.ratio = 0 /\ rm.position_unrealized_pnl = 0

----------------------------------------------------------------------------
(* The per-bar update of an open position (under SpecPnl).                   *)

\* C25 (under SpecPnl): the per-bar update of an open position
\* (update_position_info with the unchanged direction and entry price and a new
\* current price) changes only current_price, the unrealized PnL and the PnL
\* percent: direction, entry price, quantity, leverage, margin, position value,
\* entry time, holding periods and both water marks stay as they were
C25_MarkFrame ==
    [][ (pc = "pnl" /\ rm.position # 0) =>
          /\ rm'.position = rm.position
          /\ rm'.entry_price = rm.entry_price
          /\ rm'.position_quantity = rm.position_quantity
          /\ rm'.leverage = rm.leverage
          /\ rm'.margin_value = rm.margin_value
          /\ rm'.position_value = rm.position_value
          /\ rm'.entry_time = rm.entry_time
          /\ rm'.holding_periods = rm.holding_periods
          /\ rm'.high_point = rm.high_point
          /\ rm'.low_point = rm.low_point ]_vars

----------------------------------------------------------------------------
(* Recovery of the cooldown in realtime mode (under SpecCooldown).           *)

\* C26 (under SpecCooldown): in realtime mode an active cooldown is reset (not
\* active, level 0, factor 1.0) by the first update_status call made once
\* max_cooldown_treatment_duration has elapsed since the activation; no
\* update_status call made before that, with a winning trade or any other, resets
\* it; and a cooldown that is not active becomes active only on a call that
\* records a further losing trade
C26_LiveRecovery ==
    [][ (config.mode = "realtime" /\ now' = now) =>
          LET elapsed == /\ cd.cooldown_treatment_start_time # NoTime
                         /\ now - cd.cooldown_treatment_start_time
                               >= config.max_cooldown_treatment_duration
              fed     == Len(cd'.trade_history) = Len(cd.trade_history) + 1
          IN  /\ (cd.cooldown_treatment_active /\ elapsed) =>
                    \A tr \in {None} \cup { Some([pnl |-> p, timestamp |-> now,
                                                  reason |-> "trade"]) : p \in Pnls } :
                       LET m == update_status(cd, config, tr, now, now)
                       IN  /\ ~m.cooldown_treatment_active
                           /\ m.cooldown_treatment_level = 0
                           /\ m.position_size_reduction = Pct
              /\ (cd.cooldown_treatment_active /\ ~elapsed) =>
                    cd'.cooldown_treatment_active
              /\ (~cd.cooldown_treatment_active /\ cd'.cooldown_treatment_active) =>
                    /\ fed
                    /\ cd'.trade_history[Len(cd'.trade_history)].pnl < 0 ]_vars

----------------------------------------------------------------------------
(* Specification SpecLive: a TradingSystem in web mode.  One caller issues   *)
(* start() and stop(); the trading_loop threads run on their own.           *)

MaxThreads == 3    \* trading_loop threads started in one behaviour

InitLive ==
    /\ config = [OPTIMIZED_STRATEGY_CONFIG EXCEPT !.mode = "realtime"]
    /\ rm = RiskManager(config)
    /\ cd = CooldownManager
    /\ sf = SignalFilter(SIGNAL_SCORE_FILTERS)
    /\ ts = TradingSystem
    /\ bt = Backtester
    /\ pc = "live"
    /\ i = 0
    /\ runs = 0
    /\ result = None
    /\ last = NoTrace
    /\ features = <<>>
    /\ first = None
    /\ now = 0

\* start() is called
Start ==
    /\ pc = "live" /\ ts.caller = "idle"
    /\ Len(ts.threads) < MaxThreads
    /\ ts' = TradingSystem_start(ts)
    /\ UNCHANGED <<config, rm, cd, sf, bt, pc, i, runs, result, last, features, first, now>>

\* stop() is called
Stop ==
    /\ pc = "live" /\ ts.caller = "idle"
    /\ ts' = TradingSystem_stop(ts)
    /\ UNCHANGED <<config, rm, cd, sf, bt, pc, i, runs, result, last, features, first, now>>

\* stop(): join returns because trading_thread has ended
Joined ==
    /\ pc = "live" /\ ts.caller = "join"
    /\ ts.threads[ts.trading_thread] = "done"
    /\ ts' = [ts EXCEPT !.caller = "idle"]
    /\ UNCHANGED <<config, rm, cd, sf, bt, pc, i, runs, result, last, features, first, now>>

\* stop(): join(timeout=15) returns while trading_thread is still inside a loop
\* body (market data and exchange calls can take longer than the timeout)
JoinTimeout ==
    /\ pc = "live" /\ ts.caller = "join"
    /\ ts.threads[ts.trading_thread] = "step"
    /\ ts' = [ts EXCEPT !.caller = "idle"]
    /\ UNCHANGED <<config, rm, cd, sf, bt, pc, i, runs, result, last, features, first, now>>

\* a trading_loop thread evaluates 'while self.running'
LoopTest ==
    /\ pc = "live"
    /\ \E t \in 1..Len(ts.threads) :
          /\ ts.threads[t] = "test"
          /\ ts' = trading_loop_test(ts, t)
    /\ UNCHANGED <<config, rm, cd, sf, bt, pc, i, runs, result, last, features, first, now>>

\* a trading_loop thread finishes its loop body and starts to wait
LoopStepDone ==
    /\ pc = "live"
    /\ \E t \in 1..Len(ts.threads) :
          /\ ts.threads[t] = "step"
          /\ ts' = [ts EXCEPT !.threads[t] = "wait"]
    /\ UNCHANGED <<config, rm, cd, sf, bt, pc, i, runs, result, last, features, first, now>>

\* a trading_loop thread leaves the sleep loop (interval over, or running seen
\* False) and goes back to the while test
LoopWake ==
    /\ pc = "live"
    /\ \E t \in 1..Len(ts.threads) :
          /\ ts.threads[t] = "wait"
          /\ ts' = [ts EXCEPT !.threads[t] = "test"]
    /\ UNCHANGED <<config, rm, cd, sf, bt, pc, i, runs, result, last, features, first, now>>

NextLive == Start \/ Stop \/ Joined \/ JoinTimeout \/ LoopTest \/ LoopStepDone \/ LoopWake

SpecLive == InitLive /\ [][NextLive]_vars

\* C27 (under SpecLive): for every interleaving of start() and stop() calls, at
\* most one trading_loop thread is inside the per-step decision logic at a time
C27_NonReentrant ==
    pc = "live" =>
        Cardinality({ t \in 1..Len(ts.threads) : ts.threads[t] = "step" }) <= 1

\* C28 (under SpecRisk): check_risk_management returns 'take_profit' only when the
\* net leveraged profit ratio at the given price is > 0 and 'stop_loss' only when
\* it is < 0; with ratio exactly 0, or with no position, it returns 'hold'; and it
\* changes nothing of the instance but the water marks
C28_ExitExclusive ==
    [][ last'.op = "check_risk_management" =>
          /\ last'.action \in {"take_profit", "stop_loss", "hold"}
          /\ last'.action = "take_profit" => last'.ratio > 0
          /\ last'.action = "stop_loss" => last'.ratio < 0
          /\ (last'.ratio = 0 \/ rm.position = 0) => last'.action = "hold"
          /\ rm' = [rm EXCEPT !.high_point = rm'.high_point,
                              !.low_point = rm'.low_point]
          /\ rm'.position = rm.position /\ rm'.entry_price = rm.entry_price
          /\ rm'.position_quantity = rm.position_quantity
          /\ rm'.margin_value = rm.margin_value ]_vars

\* a take-profit returned for a short in profit, whose low water mark the call
\* lowered
C28_Witness ==
    /\ pc = "risk"
    /\ last.op = "check_risk_management"
    /\ last.action = "take_profit"
    /\ rm.position = -1 /\ rm.position_quantity > 0
    /\ last.ratio > 0
    /\ rm.low_point = last.price

\* C29 (under SpecRisk): should_take_profit returns (True, reason) only when the
\* net profit ratio of the open position at the given price is > 0, for every
\* combination of the callback, LineWMA and time-based rules and every feature row
C29_TakeProfitInProfit ==
    [][ (last'.op = "should_take_profit" /\ last'.out) =>
          /\ rm.position # 0
          /\ last'.ratio > 0 ]_vars

\* C30 (under SpecRisk): when several take-profit rules match on one evaluation
\* of should_take_profit, the reason returned is that of the first matching rule
\* in the order callback (retracement from the water mark, in profit), LineWMA
\* reversal (price across lineWMA against the position, score sign flipped),
\* time-based (holding periods reached, in profit); a lower rule's reason is
\* returned only if every rule above it is disabled or does not match, and
\* nothing is returned as a hit when no rule matches
C30_TakeProfitPriority ==
    [][ (last'.op = "should_take_profit" /\ ~last'.raised /\ rm.position # 0) =>
          LET p        == last'.price
              row      == last'.row
              retrace  == IF rm.position = 1
                          THEN (IF p < rm.high_point /\ rm.high_point > 0
                                THEN ((rm.high_point - p) * Ppm) \div rm.high_point ELSE 0)
                          ELSE (IF rm.low_point < PosInf /\ p > rm.low_point
                                THEN ((p - rm.low_point) * Ppm) \div rm.low_point ELSE 0)
              callback == /\ config.enable_callback /\ last'.ratio > 0
                          /\ retrace > 0 /\ retrace >= config.callback_ratio
              linewma  == /\ config.linewma_take_profit_enabled /\ row.numeric
                          /\ row.lineWMA > 0
                          /\ \/ rm.position = 1 /\ p < row.lineWMA /\ row.signal_score < 0
                             \/ rm.position = -1 /\ p > row.lineWMA /\ row.signal_score > 0
              timed    == /\ config.time_based_take_profit /\ last'.ratio > 0
                          /\ rm.holding_periods >= config.time_based_periods
          IN  /\ last'.out <=> (callback \/ linewma \/ timed)
              /\ last'.out =>
                    last'.reason = (IF callback THEN "callback_take_profit"
                                    ELSE IF linewma THEN "linewma_take_profit"
                                    ELSE "time_take_profit") ]_vars

\* an evaluation on which all three rules match (a long in profit that fell back
\* from its high below lineWMA with a negative score, held long enough): the
\* callback reason is returned
C30_Witness ==
    /\ pc = "risk"
    /\ last.op = "should_take_profit"
    /\ last.out /\ last.reason = "callback_take_profit"
    /\ config.enable_callback /\ config.linewma_take_profit_enabled
    /\ config.time_based_take_profit
    /\ rm.position = 1 /\ last.ratio > 0
    /\ rm.holding_periods >= config.time_based_periods
    /\ last.row.numeric /\ last.row.lineWMA > last.price /\ last.row.signal_score < 0

----------------------------------------------------------------------------
(* Specification SpecTimed: the backtest of Spec with the time-based take    *)
(* profit enabled after TimedPeriods bars.                                  *)

TimedPeriods == 1    \* take_profit_config.time_based_periods

InitTimed ==
    /\ config = [OPTIMIZED_STRATEGY_CONFIG EXCEPT !.time_based_take_profit = TRUE,
                                                  !.time_based_periods = TimedPeriods]
    /\ rm = RiskManager(config)
    /\ cd = CooldownManager
    /\ sf = SignalFilter(SIGNAL_SCORE_FILTERS)
    /\ ts = TradingSystem
    /\ bt = Backtester
    /\ pc = "idle"
    /\ i = 0
    /\ runs = 0
    /\ result = None
    /\ last = NoTrace
    /\ features = <<>>
    /\ first = None
    /\ now = 0

SpecTimed == InitTimed /\ [][Next]_vars

\* C31 (under SpecTimed): with the time-based take profit enabled after N >= 1
\* bars, a position that has been held for N or more bars and is profitable at a
\* bar is closed on that bar, with the time-based reason unless a higher-priority
\* take-profit rule matched on it
C31_TimedExit ==
    [][ ( /\ i' = i + 1
          /\ pc = "loop"
          /\ rm.position # 0
          /\ Len(bt.trade_log) >= 1
          /\ bt.trade_log[Len(bt.trade_log)].trade_type = "open"
          /\ i' - bt.trade_log[Len(bt.trade_log)].date >= config.time_based_periods
          /\ last'.ratio > 0
          /\ ~last'.risk_raised ) =>
          /\ last'.closed
          /\ last'.risk_action = "take_profit"
          /\ last'.risk_reason \in {"time_take_profit", "callback_take_profit",
                                    "linewma_take_profit"} ]_vars

\* C32 (under SpecRisk): opening a Long at its entry price sets high_point to the
\* entry price and low_point to +infinity (Short: low_point to the entry price,
\* high_point to -infinity); every risk check of a Long raises high_point to the
\* maximum of its old value and the checked price (Short: lowers low_point to the
\* minimum) and no other call on an unchanged position touches the marks, so a
\* mark is the extreme of the entry price and the prices checked since the open;
\* closing resets both marks to the sentinels; and with the callback rule enabled
\* the check exits with the callback reason exactly when the position is in
\* profit and the retracement from the mark is >= callback_ratio
C32_WaterMarks ==
    [][ /\ (rm'.position # rm.position /\ rm'.position = 1
            /\ rm'.current_price = rm'.entry_price) =>
              rm'.high_point = rm'.entry_price /\ rm'.low_point = PosInf
        /\ (rm'.position # rm.position /\ rm'.position = -1
            /\ rm'.current_price = rm'.entry_price) =>
              rm'.low_point = rm'.entry_price /\ rm'.high_point = NegInf
        /\ (rm'.position # rm.position /\ rm'.position = 0) =>
              rm'.high_point = NegInf /\ rm'.low_point = PosInf
        /\ (rm'.position = rm.position /\ last'.op # "check_risk_management") =>
              rm'.high_point = rm.high_point /\ rm'.low_point = rm.low_point
        /\ last'.op = "check_risk_management" =>
              /\ rm'.position = rm.position
              /\ rm.position = 1 =>
                    /\ rm'.high_point = Max2(rm.high_point, last'.price)
                    /\ rm'.low_point = rm.low_point
              /\ rm.position = -1 =>
                    /\ rm'.low_point = Min2(rm.low_point, last'.price)
                    /\ rm'.high_point = rm.high_point
              /\ rm.position = 0 =>
                    rm'.high_point = rm.high_point /\ rm'.low_point = rm.low_point
              /\ LET p    == last'.price
                     back == IF rm.position = 1
                             THEN ((rm'.high_point - p) * Ppm) \div rm'.high_point
                             ELSE ((p - rm'.low_point) * Ppm) \div rm'.low_point
                 IN  (last'.action = "take_profit"
                          /\ last'.reason = "callback_take_profit")
                     <=> /\ config.enable_callback
                         /\ rm.position # 0
                         /\ last'.ratio > 0
                         /\ back >= config.callback_ratio ]_vars

\* a long opened at 140 whose high water mark an earlier check raised to 200: the
\* check at 190, in profit and 5% below the mark, exits with the callback reason
C32_Witness ==
    /\ pc = "risk"
    /\ last.op = "check_risk_management"
    /\ last.action = "take_profit" /\ last.reason = "callback_take_profit"
    /\ rm.position = 1 /\ rm.entry_price = 140
    /\ rm.high_point = 200 /\ last.price = 190
    /\ rm.low_point = PosInf

\* C33 (under SpecFilter): whenever filter_signal returns, the direction it
\* returns is the input direction or 0, and for an input direction of 0 it
\* returns 0 at once, having evaluated no stage
C33_FiltersOnlyVeto ==
    (pc = "filter" /\ i >= 1) =>
        LET x   == features[1]
            out == Val(first)
        IN  /\ ~out.raised => out.signal \in {x.signal, 0}
            /\ x.signal = 0 => /\ out.signal = 0
                               /\ ~out.raised
                               /\ out.trail = <<>>
                               /\ out.reason = "original_neutral"

\* a short signal that passed the price deviation, RSI and volatility stages (the
\* volatility stage hands back 1 on a pass) and the stages after them: -1 is returned
C33_Witness ==
    /\ pc = "filter"
    /\ i >= 1
    /\ features[1].signal = -1
    /\ Val(first).signal = -1
    /\ ~Val(first).raised
    /\ \E k \in 1..Len(Val(first).trail) :
          Val(first).trail[k] = StagePass("volatility", "volatility_pass")
    /\ Len(Val(first).trail) = 5

\* C34 (under SpecFilter): filter_signal evaluates the enabled stages in the order
\* price deviation, RSI, volatility, signal score, entanglement: the stages it ran
\* are the enabled stages from the first one up to the first that does not pass, in
\* that order; a returned veto carries the reason of the first enabled stage that
\* vetoes; a disabled stage is never run; and a returned signal is passed iff no
\* enabled stage vetoes it
C34_FilterOrder ==
    (pc = "filter" /\ i >= 1 /\ features[1].signal # 0) =>
        LET x       == features[1]
            out     == Val(first)
            order   == << "price_deviation", "rsi", "volatility", "signal_score",
                          "entanglement" >>
            on      == << sf.enable_price_deviation_filter, sf.enable_rsi_filter,
                          sf.enable_volatility_filter, sf.enable_signal_score_filter,
                          sf.enable_price_ma_entanglement >>
            verdict == << check_price_deviation(sf, x, x.signal),
                          check_rsi_conditions(sf, x, x.signal),
                          check_volatility_filter(sf, x),
                          check_signal_score_filter(sf, x.signal, x.trend_score,
                                                    x.base_score),
                          check_price_ma_entanglement(sf, x) >>
            enabled == { k \in 1..5 : on[k] }
            stops   == { k \in enabled : verdict[k].verdict # "pass" }
            ran     == { k \in enabled : \A j \in stops : k <= j }
            n       == Len(out.trail)
        IN  /\ n = Cardinality(ran)
            /\ \A a \in 1..n : /\ \E k \in ran : order[k] = out.trail[a].stage
                               /\ out.trail[a] = verdict[CHOOSE k \in ran :
                                                    order[k] = out.trail[a].stage]
            /\ \A a, b \in 1..n :
                  a < b => \E k, j \in ran : /\ k < j
                                             /\ order[k] = out.trail[a].stage
                                             /\ order[j] = out.trail[b].stage
            /\ ~out.raised =>
                  /\ out.signal = 0 <=> \E k \in enabled : verdict[k].verdict = "veto"
                  /\ out.signal # 0 => out.signal = x.signal /\ out.reason = "passed"
                  /\ out.signal = 0 =>
                        LET k == CHOOSE k \in enabled :
                                    /\ verdict[k].verdict = "veto"
                                    /\ \A j \in enabled :
                                          verdict[j].verdict = "veto" => k <= j
                        IN  /\ out.reason = verdict[k].reason
                            /\ out.trail[n].stage = order[k]

\* with every stage enabled, a long signal that both the RSI stage and the signal
\* score stage would veto: the stages run are price deviation and RSI, and the RSI
\* reason is returned
C34_Witness ==
    /\ pc = "filter"
    /\ i >= 1
    /\ sf = SignalFilter(SIGNAL_SCORE_FILTERS)
    /\ features[1].signal = 1
    /\ check_signal_score_filter(sf, 1, features[1].trend_score,
                                 features[1].base_score).verdict = "veto"
    /\ Val(first).signal = 0
    /\ Val(first).reason = "rsi_overbought"
    /\ Len(Val(first).trail) = 2

\* the ordering of close, the EMA pair and lineWMA of a row is a perfect alignment
\* (a missing field reads as 0, a NaN or non-numeric field compares as false)
PerfectAlignment(x) ==
    LET c == Get(x.close, 0)
        w == Get(x.lineWMA, 0)
        o == Get(x.openEMA, 0)
        e == Get(x.closeEMA, 0)
    IN  /\ \A y \in {c, w, o, e} : y.kind = "num"
        /\ \/ c.v > Max2(o.v, e.v) /\ Max2(o.v, e.v) > w.v
           \/ c.v < Min2(o.v, e.v) /\ Min2(o.v, e.v) < w.v

\* close, lineWMA, openEMA and closeEMA of a row are numbers and none of the three
\* averages is 0
ValidAverages(x) ==
    /\ \A y \in {Get(x.close, 0), Get(x.lineWMA, 0), Get(x.openEMA, 0),
                 Get(x.closeEMA, 0)} : y.kind = "num"
    /\ \A y \in {Get(x.lineWMA, 0), Get(x.openEMA, 0), Get(x.closeEMA, 0)} : y.v # 0

\* the close-to-lineWMA distance of a valid row, 1/100 percent
WmaDistance(x) == (Abs(x.close.v - x.lineWMA.v) * 10000) \div x.lineWMA.v

\* the entanglement stage was reached by the call
EntanglementRan(out) == \E k \in 1..Len(out.trail) : out.trail[k].stage = "entanglement"

\* C35 as stated (under SpecFilter): with the entanglement stage enabled a
\* non-neutral signal passes only on a perfect alignment whose distance from
\* lineWMA is at least the threshold, and every bar on which the stage is reached
\* and whose ordering is not a perfect alignment is vetoed
C35_EntanglementAlways ==
    (pc = "filter" /\ i >= 1 /\ features[1].signal # 0
        /\ sf.enable_price_ma_entanglement /\ ~Val(first).raised) =>
        LET x   == features[1]
            out == Val(first)
        IN  /\ out.signal # 0 =>
                  /\ PerfectAlignment(x)
                  /\ WmaDistance(x) >= sf.entanglement_distance_threshold
            /\ (EntanglementRan(out) /\ ~PerfectAlignment(x)) =>
                  out.signal = 0 /\ out.reason = "entangled"

\* C35 (under SpecFilter), on valid rows only: with the entanglement stage enabled
\* and close, lineWMA, openEMA, closeEMA numeric with non-zero averages, a
\* non-neutral signal passes only on a perfect alignment whose distance from
\* lineWMA is at least the threshold, and every such bar on which the stage is
\* reached and whose ordering is not a perfect alignment is vetoed, for either
\* direction; on a row with a missing, NaN or zero average the stage passes the
\* signal on
C35_EntanglementValid ==
    (pc = "filter" /\ i >= 1 /\ features[1].signal # 0
        /\ sf.enable_price_ma_entanglement /\ ~Val(first).raised) =>
        LET x   == features[1]
            out == Val(first)
        IN  /\ (out.signal # 0 /\ ValidAverages(x)) =>
                  /\ PerfectAlignment(x)
                  /\ WmaDistance(x) >= sf.entanglement_distance_threshold
            /\ (EntanglementRan(out) /\ ValidAverages(x)) =>
                  (out.signal = 0 <=>
                      ~(PerfectAlignment(x)
                        /\ WmaDistance(x) >= sf.entanglement_distance_threshold))
            /\ (EntanglementRan(out) /\ ValidAverages(x) /\ out.signal = 0) =>
                  out.reason = "entangled"
            /\ (EntanglementRan(out) /\ ~ValidAverages(x)) => out.signal = x.signal

\* a perfect bullish alignment 5.26 % above lineWMA, vetoed as entangled under a
\* distance threshold of 6 %
C35_Witness ==
    /\ pc = "filter"
    /\ i >= 1
    /\ sf.entanglement_distance_threshold = 600
    /\ features[1].signal = 1
    /\ ValidAverages(features[1]) /\ PerfectAlignment(features[1])
    /\ WmaDistance(features[1]) < sf.entanglement_distance_threshold
    /\ Val(first).signal = 0
    /\ Val(first).reason = "entangled"

----------------------------------------------------------------------------
(* Specification SpecWeights: dynamic_weights of one strategy, called at an   *)
(* ADX value and at the next value one grid step above it.  i holds the ADX  *)
(* value (1/100), first the weights returned at i and result the weights     *)
(* returned at i + 1, 0.01 above (1/1000000 each).                           *)

AdxScale == 100    \* ADX values are held in 1/100
AdxLow   == 1900
AdxHigh  == 4600

\* base weight tables of dynamic_weights
strong_trend ==
    [adx |-> 350000, ema |-> 300000, atr |-> 150000, volume |-> 50000,
     rsi |-> 100000, bb |-> 50000]
medium_trend ==
    [adx |-> 300000, ema |-> 300000, atr |-> 150000, volume |-> 100000,
     rsi |-> 100000, bb |-> 50000]
ranging ==
    [adx |-> 100000, ema |-> 350000, atr |-> 100000, volume |-> 100000,
     rsi |-> 300000, bb |-> 50000]

\* SharpeOptimizedStrategy._mix_weights with factor = num / den
mix_weights(weights1, weights2, num, den) ==
    [k \in DOMAIN weights1 |-> (weights1[k] * (den - num) + weights2[k] * num) \div den]

\* SharpeOptimizedStrategy.dynamic_weights(adx_value), adx_value a scalar in 1/100
dynamic_weights(adx_value) ==
    IF adx_value > 40 * AdxScale
    THEN IF adx_value < 45 * AdxScale
         THEN mix_weights(strong_trend, medium_trend, adx_value - 40 * AdxScale, 5 * AdxScale)
         ELSE strong_trend
    ELSE IF adx_value > 25 * AdxScale
    THEN IF adx_value > 35 * AdxScale
         THEN mix_weights(medium_trend, strong_trend, adx_value - 35 * AdxScale, 5 * AdxScale)
         ELSE IF adx_value < 30 * AdxScale
         THEN mix_weights(medium_trend, ranging, 30 * AdxScale - adx_value, 5 * AdxScale)
         ELSE medium_trend
    ELSE IF adx_value > 20 * AdxScale
         THEN mix_weights(ranging, medium_trend, adx_value - 20 * AdxScale, 5 * AdxScale)
         ELSE ranging

InitWeights ==
    /\ config = OPTIMIZED_STRATEGY_CONFIG
    /\ rm = RiskManager(config)
    /\ cd = CooldownManager
    /\ sf = SignalFilter(SIGNAL_SCORE_FILTERS)
    /\ ts = TradingSystem
    /\ bt = Backtester
    /\ pc = "weights"
    /\ i \in AdxLow..AdxHigh
    /\ runs = 0
    /\ result = None
    /\ last = NoTrace
    /\ features = <<>>
    /\ first = None
    /\ now = 0

\* dynamic_weights(adx_value)
DynamicWeights ==
    /\ pc = "weights"
    /\ IsNone(first)
    /\ first' = Some(dynamic_weights(i))
    /\ UNCHANGED <<config, ts, rm, cd, sf, bt, pc, i, runs, result, last, features, now>>

\* dynamic_weights(adx_value + 0.01)
DynamicWeightsAbove ==
    /\ pc = "weights"
    /\ ~IsNone(first) /\ IsNone(result)
    /\ result' = Some(dynamic_weights(i + 1))
    /\ UNCHANGED <<config, ts, rm, cd, sf, bt, pc, i, runs, first, last, features, now>>

NextWeights == DynamicWeights \/ DynamicWeightsAbove

SpecWeights == InitWeights /\ [][NextWeights]_vars

\* C36 (under SpecWeights): the weights returned by dynamic_weights sum to 1 at
\* every ADX value, and they are continuous in ADX: between two ADX values 0.01
\* apart no weight moves by more than 0.0005 (the steepest slope of a mixing band,
\* 0.25 per 5 ADX points), at the band boundaries 20, 25, 30, 35, 40 and 45 as
\* everywhere else
C36_WeightsContinuous ==
    (pc = "weights" /\ ~IsNone(result)) =>
        LET below == Val(first)
            above == Val(result)
            keys  == {"adx", "ema", "atr", "volume", "rsi", "bb"}
        IN  /\ DOMAIN below = keys /\ DOMAIN above = keys
            /\ below.adx + below.ema + below.atr + below.volume + below.rsi + below.bb
                  = Ppm
            /\ above.adx + above.ema + above.atr + above.volume + above.rsi + above.bb
                  = Ppm
            /\ \A k \in keys : Abs(above[k] - below[k]) <= 500

\* C37 (under SpecCooldown): after every update_status, consecutive_losses is the
\* length of the longest suffix of the trade history made only of trades with
\* pnl < 0 and consecutive_wins the length of the longest suffix made only of
\* trades with pnl > 0; a most recent trade with pnl = 0 gives 0 for both; and at
\* most one of the two counters is non-zero
C37_Streaks ==
    pc = "cooldown" =>
        LET h      == cd.trade_history
            n      == Len(h)
            losing == { m \in 0..n : \A k \in (n - m + 1)..n : h[k].pnl < 0 }
            winning == { m \in 0..n : \A k \in (n - m + 1)..n : h[k].pnl > 0 }
        IN  /\ cd.consecutive_losses = CHOOSE m \in losing : \A o \in losing : o <= m
            /\ cd.consecutive_wins = CHOOSE m \in winning : \A o \in winning : o <= m
            /\ (n > 0 /\ h[n].pnl = 0) =>
                  cd.consecutive_losses = 0 /\ cd.consecutive_wins = 0
            /\ cd.consecutive_losses = 0 \/ cd.consecutive_wins = 0

\* two wins after a flat trade that followed two losses: the win streak is 2, the
\* loss streak 0
C37_Witness ==
    /\ pc = "cooldown"
    /\ Len(cd.trade_history) = 5
    /\ cd.trade_history[1].pnl < 0 /\ cd.trade_history[2].pnl < 0
    /\ cd.trade_history[3].pnl = 0
    /\ cd.trade_history[4].pnl > 0 /\ cd.trade_history[5].pnl > 0
    /\ cd.consecutive_wins = 2 /\ cd.consecutive_losses = 0

\* C38 (under SpecCooldown): after any sequence of update_status and reset_state
\* calls the cooldown is active iff its level is >= 1; when inactive the level is 0
\* and the reduction factor 1.0; when active the factor is the configured factor
\* of the current level for the current mode; and apply_to_position_size scales a
\* size by the factor while active and returns it unchanged otherwise
C38_CooldownConsistent ==
    pc = "cooldown" =>
        LET lvl    == cd.cooldown_treatment_level
            factor == IF config.mode = "backtest"
                      THEN << config.bt_level_1, config.bt_level_2, config.bt_level_3 >>
                      ELSE << config.rt_level_1, config.rt_level_2, config.rt_level_3 >>
        IN  /\ cd.cooldown_treatment_active <=> lvl >= 1
            /\ lvl \in 0..3
            /\ ~cd.cooldown_treatment_active =>
                  lvl = 0 /\ cd.position_size_reduction = Pct
            /\ cd.cooldown_treatment_active =>
                  cd.position_size_reduction = factor[lvl]
            /\ \A size \in {0, 50, 80, 100} :
                  apply_to_position_size(cd, size) =
                      IF lvl >= 1 THEN (size * factor[lvl]) \div Pct ELSE size

\* four losses in a row in backtest mode: the cooldown is active at level 3 with the
\* level 3 factor, and a full size is scaled down by it
C38_Witness ==
    /\ pc = "cooldown"
    /\ config.mode = "backtest"
    /\ cd.consecutive_losses = 4
    /\ cd.cooldown_treatment_active
    /\ cd.cooldown_treatment_level = 3
    /\ cd.position_size_reduction = config.bt_level_3
    /\ apply_to_position_size(cd, 100) = config.bt_level_3
    /\ config.bt_level_3 < 100

\* cash before record k of a trade log was written
CashBefore(b, k) == IF k = 1 THEN b.initial_cash ELSE b.trade_log[k - 1].cash

\* sum of the pnl of the close records among the first k records of a trade log
RECURSIVE ClosePnl(_, _)
ClosePnl(log, k) ==
    IF k = 0 THEN 0
    ELSE ClosePnl(log, k - 1) + (IF log[k].trade_type = "close" THEN log[k].pnl ELSE 0)

\* C39: at every step of a backtest cash is >= 0; an open deducts exactly the
\* margin cash * size and sets the quantity to margin / price; a close adds back
\* exactly that margin plus the realized pnl, floored at 0; so at every flat step
\* of a run in which the floor never cut anything, cash is the initial cash plus
\* the sum of the pnl of all close records so far
C39_Ledger ==
    pc \in {"loop", "end"} =>
        LET log == bt.trade_log
            n   == Len(log)
        IN  /\ bt.cash >= 0
            /\ bt.cash = IF n = 0 THEN bt.initial_cash ELSE log[n].cash
            /\ \A k \in 1..n :
                  /\ log[k].trade_type = "open" =>
                        log[k].cash = CashBefore(bt, k)
                                      - (CashBefore(bt, k) * log[k].position_size) \div Pct
                  /\ log[k].trade_type = "close" =>
                        /\ k >= 2 /\ log[k - 1].trade_type = "open"
                        /\ log[k].cash = Max2(0, log[k - 1].cash
                                                 + (CashBefore(bt, k - 1) - log[k - 1].cash)
                                                 + log[k].pnl)
            /\ (n >= 1 /\ log[n].trade_type = "open") =>
                  LET margin == CashBefore(bt, n) - log[n].cash
                  IN  /\ rm.position # 0
                      /\ rm.margin_value = margin
                      /\ rm.position_quantity = (margin * QtyScale) \div log[n].price
            /\ (rm.position = 0
                /\ \A k \in 1..n : log[k].trade_type = "close" =>
                                      CashBefore(bt, k - 1) + log[k].pnl >= 0) =>
                  bt.cash = bt.initial_cash + ClosePnl(log, n)

\* flat after a winning and a losing close, the floor never applied: cash is the
\* initial cash plus the two pnl
C39_Witness ==
    /\ pc \in {"loop", "end"}
    /\ rm.position = 0
    /\ Len(bt.trade_log) = 4
    /\ bt.trade_log[2].pnl > 0 /\ bt.trade_log[4].pnl < 0
    /\ bt.trade_log[4].cash > 0
    /\ bt.cash = bt.initial_cash + bt.trade_log[2].pnl + bt.trade_log[4].pnl

\* C40: throughout a backtest total_trades is the number of open records of the
\* trade log, profitable_trades the number of close records with pnl > 0 and
\* loss_trades the number of close records with pnl <= 0 (a close with pnl = 0 is
\* counted as a loss), so profitable_trades + loss_trades is the number of close
\* records; when the run ends profitable_trades + loss_trades = total_trades; and,
\* cooldown being enabled, the CooldownManager has been notified exactly once per
\* close record, in the order of the trade log
C40_Counters ==
    pc \in {"loop", "end"} =>
        LET log    == bt.trade_log
            opens  == SelectSeq(log, LAMBDA r : r.trade_type = "open")
            closes == SelectSeq(log, LAMBDA r : r.trade_type = "close")
            wins   == SelectSeq(closes, LAMBDA r : r.pnl > 0)
        IN  /\ bt.total_trades = Len(opens)
            /\ bt.profitable_trades = Len(wins)
            /\ bt.loss_trades = Len(closes) - Len(wins)
            /\ bt.profitable_trades + bt.loss_trades = Len(closes)
            /\ pc = "end" => bt.profitable_trades + bt.loss_trades = bt.total_trades
            /\ config.enable_cooldown_treatment =>
                  /\ Len(cd.trade_history) = Len(closes)
                  /\ \A k \in 1..Len(closes) :
                        /\ cd.trade_history[k].pnl = closes[k].pnl
                        /\ cd.trade_history[k].timestamp = closes[k].date
                        /\ cd.trade_history[k].reason = closes[k].reason

\* the end of a run with two trades, the first closed at a loss by the stop loss
\* and the second force-closed with pnl = 0: two losses counted, two notifications
C40_Witness ==
    /\ pc = "end"
    /\ Len(bt.trade_log) = 4
    /\ bt.trade_log[2].pnl < 0 /\ bt.trade_log[4].pnl = 0
    /\ bt.total_trades = 2 /\ bt.profitable_trades = 0 /\ bt.loss_trades = 2
    /\ Len(cd.trade_history) = 2
    /\ cd.trade_history[2].pnl = 0

====
